---- MODULE Spec2Model ----
(***************************************************************************)
(* Single-writer orchestration engine (orchestrator/contracts.py,          *)
(* orchestrator/orchestrator.py, orchestrator/run_orchestrator.py).        *)
(*                                                                         *)
(* Files of a run directory (ledger.jsonl, state.json, orchestrator.lock,  *)
(* checkpoints/) and the in-memory fields of one SingleWriterOrchestrator  *)
(* are the state.  SHA-256 is modelled as collision free: the digest of a  *)
(* JSON document is the canonical (sorted-key) document itself.  Floats    *)
(* are integers scaled by 1e11, so eps_root = 1e-10 is 10.                 *)
(***************************************************************************)
EXTENDS Integers, Sequences, FiniteSets, TLC

\* ------------------------------------------------------------------ bounds
MaxT == 2            \* payload positions t are 1..MaxT
MaxQueue == 1        \* messages waiting in the reducer's queue
MaxRejected == 1     \* cap on the rejected counter
MaxLedger == 2       \* cap on the number of ledger lines
MaxClock == 0        \* timestamps are 0..MaxClock
MaxErrors == 1       \* cap on a job's attempts counter
NumConc == 3         \* payloads submitted concurrently by the simulated workers
MaxLines == 2        \* lines of a ledger file found at resume
MaxSnapSeq == 3      \* seq values a snapshot file found at resume may hold
MaxAttemptsSeen == 4 \* cap on a job's attempts counter under SpecJobs
MaxJobLedger == 1    \* cap on the number of ledger lines under SpecJobs
MaxJobRejected == 1  \* cap on the rejected counter under SpecJobs
MaxOver == 2         \* root_val ranges over -(eps + MaxOver) .. eps + MaxOver under SpecTol

\* ------------------------------------------------- program constants
EpsRoot == 10        \* eps_root = 1e-10, in units of 1e-11
max_attempts == 3
checkpoint_every == 2
RunId == "Latido"
Workers == {1, 2}
JobIds == {1, 2}

\* ------------------------------------------------------------ JSON values
\* A JSON scalar or container as far as the code inspects it: its type and,
\* for a number, its value (for a string or a map, which one it is).
Num(n) == [ty |-> "num", n |-> n]
Str(n) == [ty |-> "str", n |-> n]
MapV(n) == [ty |-> "map", n |-> n]
Null == [ty |-> "null", n |-> 0]
Absent == [ty |-> "absent", n |-> 0]

Field(k, v) == [k |-> k, v |-> v]

\* A raw payload: a dict with its keys in insertion order, or some other value.
Dict(fs) == [dict |-> TRUE, fields |-> fs]
NotADict == [dict |-> FALSE, fields |-> <<>>]

Has(d, k) == \E i \in DOMAIN d.fields : d.fields[i].k = k
Get(d, k) == d.fields[CHOOSE i \in DOMAIN d.fields : d.fields[i].k = k].v

\* Lexicographic order of the key strings used: "meta" < "root_val" < "t" < "x".
KeyRank(k) == CASE k = "meta" -> 1 [] k = "root_val" -> 2 [] k = "t" -> 3 [] OTHER -> 4

Abs(n) == IF n < 0 THEN -n ELSE n

\* float(v) succeeds
Floatable(v) == v.ty = "num"

\* ResultPayload.validate
validate(d) ==
    /\ d.dict
    /\ Has(d, "t") /\ Has(d, "root_val") /\ Has(d, "meta")
    /\ Get(d, "meta").ty = "map"
    /\ Floatable(Get(d, "t"))
    /\ Floatable(Get(d, "root_val"))

\* Gate 2 of accept_result with tolerance_checker = None (the harness's setting)
TolerancePass(payload) ==
    IF Has(payload, "root_val")
    THEN ~(Abs(Get(payload, "root_val").n) > EpsRoot)
    ELSE TRUE

\* json.dumps(..., sort_keys=True): the fields in key order
RECURSIVE InsertByKey(_, _)
InsertByKey(f, s) ==
    IF s = <<>> THEN <<f>>
    ELSE IF KeyRank(f.k) <= KeyRank(Head(s).k) THEN <<f>> \o s
    ELSE <<Head(s)>> \o InsertByKey(f, Tail(s))

RECURSIVE SortKeys(_)
SortKeys(s) == IF s = <<>> THEN <<>> ELSE InsertByKey(Head(s), SortKeys(Tail(s)))

\* sha256_json of a payload
sha256_json(obj) == [dict |-> obj.dict, fields |-> SortKeys(obj.fields)]

\* Variant: the hash is taken before the timestamp is added to the event
FromPartsHashNoTs(run_id, worker_id, job_id, sq, payload, ts) ==
    [run_id |-> run_id, worker_id |-> worker_id, job_id |-> job_id, seq |-> sq,
     payload |-> payload, ts |-> ts,
     hash |-> [run_id |-> run_id, worker_id |-> worker_id, job_id |-> job_id,
               seq |-> sq, payload |-> sha256_json(payload), ts |-> 0]]

\* LedgerEvent.from_parts: hash covers every other field, canonically
from_parts(run_id, worker_id, job_id, sq, payload, ts) ==
    [run_id |-> run_id, worker_id |-> worker_id, job_id |-> job_id, seq |-> sq,
     payload |-> payload, ts |-> ts,
     hash |-> [run_id |-> run_id, worker_id |-> worker_id, job_id |-> job_id,
               seq |-> sq, payload |-> sha256_json(payload), ts |-> ts]]

NoHash == [run_id |-> "", worker_id |-> 0, job_id |-> 0, seq |-> 0,
           payload |-> sha256_json(NotADict), ts |-> 0]

\* A line of ledger.jsonl: what json.loads makes of it.
\*   form: "blank" | "garbage" (not JSON) | "nonobject" (JSON, not a dict) | "object"
\*   payload_present / seqv.ty = "absent": the key is missing from the object
Line(form, pp, payload, seqv, run_id, worker_id, job_id, ts, hash) ==
    [form |-> form, payload_present |-> pp, payload |-> payload, seqv |-> seqv,
     run_id |-> run_id, worker_id |-> worker_id, job_id |-> job_id, ts |-> ts,
     hash |-> hash]

\* to_jsonl_line(evt): every field of the dataclass, payload keys in insertion order
to_jsonl_line(evt) ==
    Line("object", TRUE, evt.payload, Num(evt.seq), evt.run_id, evt.worker_id,
         evt.job_id, evt.ts, evt.hash)

\* ------------------------------------------------------- orchestrator state
\* A job record of state["jobs"] (the range fields t_start, t_end, stride are
\* copied at registration and never read again by the orchestrator).
JobRec(id, attempts, status, last_error) ==
    [job_id |-> id, attempts |-> attempts, status |-> status, last_error |-> last_error]

\* Job(job_id=...): attempts 0, status PENDING, last_error None
NewJob(id) == JobRec(id, 0, "PENDING", 0)

\* self.state after __init__ ; jobs is a dict, kept here in insertion order
InitState == [jobs |-> <<>>, done |-> 0, failed |-> 0, rejected |-> 0, seq |-> 0]

HasJob(st, id) == \E i \in DOMAIN st.jobs : st.jobs[i].job_id = id
JobIndex(st, id) == CHOOSE i \in DOMAIN st.jobs : st.jobs[i].job_id = id

RECURSIVE InsertJob(_, _)
InsertJob(j, s) ==
    IF s = <<>> THEN <<j>>
    ELSE IF j.job_id <= Head(s).job_id THEN <<j>> \o s
    ELSE <<Head(s)>> \o InsertJob(j, Tail(s))

RECURSIVE SortJobs(_)
SortJobs(s) == IF s = <<>> THEN <<>> ELSE InsertJob(Head(s), SortJobs(Tail(s)))

\* state.json: absent, or the document json.dumps(state, sort_keys=True) wrote
\* (sort_keys orders the jobs map by job_id; job ids are numbered in that order).
NoSnapshot == [exists |-> FALSE, doc |-> InitState]
SnapshotOf(st) == [exists |-> TRUE, doc |-> [st EXCEPT !.jobs = SortJobs(@)]]

\* save_state: the snapshot file after the call
save_state(st) == SnapshotOf(st)

\* load_state: (seq, state) after the call
load_state(snap, sq, st) ==
    IF snap.exists THEN [seq |-> snap.doc.seq, state |-> snap.doc]
    ELSE [seq |-> sq, state |-> st]

\* Variant: the replay restores seq but leaves the dedup index as it was
ReplayLineNoHash(line, acc) ==
    IF acc.outcome # "ok" \/ line.form # "object" \/ line.seqv.ty # "num" THEN acc
    ELSE [acc EXCEPT !.seq = IF line.seqv.n > @ THEN line.seqv.n ELSE @]

\* Variant: the replay rebuilds the dedup index but keeps the seq it started with
ReplayLineKeepSeq(line, acc) ==
    IF acc.outcome # "ok" \/ line.form # "object" THEN acc
    ELSE [acc EXCEPT !.hashes = IF line.payload_present /\ line.payload.dict
                                  THEN @ \cup {sha256_json(line.payload)} ELSE @]

\* One iteration of the loop of replay_ledger_for_dedup. acc = [outcome, seq, hashes]
ReplayLine(line, acc) ==
    IF acc.outcome # "ok" THEN acc
    ELSE IF line.form = "blank" THEN acc
    ELSE IF line.form = "garbage" THEN [acc EXCEPT !.outcome = "RuntimeError"]
    ELSE IF line.form = "nonobject" THEN [acc EXCEPT !.outcome = "AttributeError"]
    ELSE LET hs == IF line.payload_present /\ line.payload.dict
                   THEN acc.hashes \cup {sha256_json(line.payload)}
                   ELSE acc.hashes
         IN  CASE line.seqv.ty = "absent" -> [acc EXCEPT !.hashes = hs]
               [] line.seqv.ty = "num" ->
                    [acc EXCEPT !.hashes = hs,
                                !.seq = IF line.seqv.n > @ THEN line.seqv.n ELSE @]
               [] line.seqv.ty = "str" -> [acc EXCEPT !.hashes = hs, !.outcome = "ValueError"]
               [] OTHER -> [acc EXCEPT !.hashes = hs, !.outcome = "RuntimeError"]

RECURSIVE ReplayLines(_, _)
ReplayLines(lines, acc) ==
    IF lines = <<>> THEN acc
    ELSE ReplayLines(Tail(lines), ReplayLine(Head(lines), acc))

\* Variant: the lines the snapshot's seq already covers are not replayed
ReplayAfterSnapshot(lines, sq, hashes) ==
    ReplayLines(SubSeq(lines, sq + 1, Len(lines)),
                [outcome |-> "ok", seq |-> sq, hashes |-> hashes])

\* Variant: the last line of the file is taken for a torn write and not replayed
ReplayDropLast(lines, sq, hashes) ==
    ReplayLines(SubSeq(lines, 1, Len(lines) - 1),
                [outcome |-> "ok", seq |-> sq, hashes |-> hashes])

\* replay_ledger_for_dedup on ledger file contents `lines`
replay_ledger_for_dedup(lines, sq, hashes) ==
    ReplayLines(lines, [outcome |-> "ok", seq |-> sq, hashes |-> hashes])

\* Variant: a job that is already known is stored again as the list gives it
RECURSIVE RegisterJobsOverwrite(_, _)
RegisterJobsOverwrite(st, jobs) ==
    IF jobs = <<>> THEN st
    ELSE RegisterJobsOverwrite(
            IF HasJob(st, Head(jobs))
            THEN [st EXCEPT !.jobs[JobIndex(st, Head(jobs))] = NewJob(Head(jobs))]
            ELSE [st EXCEPT !.jobs = Append(@, NewJob(Head(jobs)))],
            Tail(jobs))

\* register_jobs: state after the loop (save_state follows in the action)
RECURSIVE register_jobs(_, _)
register_jobs(st, jobs) ==
    IF jobs = <<>> THEN st
    ELSE register_jobs(
            IF HasJob(st, Head(jobs)) THEN st
            ELSE [st EXCEPT !.jobs = Append(@, NewJob(Head(jobs)))],
            Tail(jobs))

\* Variant: a RUNNING job is eligible too
FirstPendingOrRunning(st) ==
    IF \E i \in DOMAIN st.jobs : st.jobs[i].status \in {"PENDING", "RUNNING"}
    THEN CHOOSE i \in DOMAIN st.jobs :
            /\ st.jobs[i].status \in {"PENDING", "RUNNING"}
            /\ \A k \in 1..(i-1) : st.jobs[k].status \notin {"PENDING", "RUNNING"}
    ELSE 0

\* get_next_job: index of the first PENDING job, 0 when there is none
FirstPending(st) ==
    IF \E i \in DOMAIN st.jobs : st.jobs[i].status = "PENDING"
    THEN CHOOSE i \in DOMAIN st.jobs :
            /\ st.jobs[i].status = "PENDING"
            /\ \A k \in 1..(i-1) : st.jobs[k].status # "PENDING"
    ELSE 0

get_next_job(st) ==
    IF FirstPending(st) = 0 THEN st
    ELSE [st EXCEPT !.jobs[FirstPending(st)].status = "RUNNING"]

\* mark_job_done (job known)
mark_job_done(st, id) ==
    [st EXCEPT !.jobs[JobIndex(st, id)].status = "DONE", !.done = @ + 1]

\* Variant: the retry limit is compared with > instead of >=
mark_job_failed_late(st, id, err) ==
    LET i == JobIndex(st, id)
        a == st.jobs[i].attempts + 1
    IN  IF a > max_attempts
        THEN [st EXCEPT !.jobs[i].attempts = a, !.jobs[i].last_error = err,
                        !.jobs[i].status = "FAILED", !.failed = @ + 1]
        ELSE [st EXCEPT !.jobs[i].attempts = a, !.jobs[i].last_error = err,
                        !.jobs[i].status = "PENDING"]

\* mark_job_failed (job known)
mark_job_failed(st, id, err) ==
    LET i == JobIndex(st, id)
        a == st.jobs[i].attempts + 1
    IN  IF a >= max_attempts
        THEN [st EXCEPT !.jobs[i].attempts = a, !.jobs[i].last_error = err,
                        !.jobs[i].status = "FAILED", !.failed = @ + 1]
        ELSE [st EXCEPT !.jobs[i].attempts = a, !.jobs[i].last_error = err,
                        !.jobs[i].status = "PENDING"]

\* Variant: the increment is lost
NextSeqNoIncrement(sq) == IF sq = 0 THEN 1 ELSE sq

\* accept_result: self.seq += 1
NextSeq(sq) == sq + 1

\* Variant: the tolerance gate is skipped
GatesNoTolerance(payload, hashes) ==
    IF ~validate(payload) THEN "REJECTED_SCHEMA"
    ELSE IF sha256_json(payload) \in hashes THEN "REJECTED_DUP"
    ELSE "PASS"

\* Variant: the dedup gate compares the payload as submitted, not its canonical form
GatesRawDedup(payload, hashes) ==
    IF ~validate(payload) THEN "REJECTED_SCHEMA"
    ELSE IF ~TolerancePass(payload) THEN "REJECTED_TOL"
    ELSE IF payload \in hashes THEN "REJECTED_DUP"
    ELSE "PASS"

\* Variant: the dedup lookup comes before the tolerance gate
GatesDedupFirst(payload, hashes) ==
    IF ~validate(payload) THEN "REJECTED_SCHEMA"
    ELSE IF sha256_json(payload) \in hashes THEN "REJECTED_DUP"
    ELSE IF ~TolerancePass(payload) THEN "REJECTED_TOL"
    ELSE "PASS"

\* Variant: a duplicate is turned down like a payload out of tolerance, and counted
GatesDupCounted(payload, hashes) ==
    IF ~validate(payload) THEN "REJECTED_SCHEMA"
    ELSE IF ~TolerancePass(payload) THEN "REJECTED_TOL"
    ELSE IF sha256_json(payload) \in hashes THEN "REJECTED_TOL"
    ELSE "PASS"

\* Gates 1-3 of accept_result: the verdict, "PASS" when all three gates pass
Gates(payload, hashes) ==
    IF ~validate(payload) THEN "REJECTED_SCHEMA"
    ELSE IF ~TolerancePass(payload) THEN "REJECTED_TOL"
    ELSE IF sha256_json(payload) \in hashes THEN "REJECTED_DUP"
    ELSE "PASS"

\* ------------------------------------------------------------- messages
Result(w, j, p, jd) ==
    [kind |-> "RESULT", worker_id |-> w, job_id |-> j, payload |-> p, job_done |-> jd]
Error(w, j) ==
    [kind |-> "ERROR", worker_id |-> w, job_id |-> j, payload |-> NotADict, job_done |-> FALSE]
\* the None that shutdown() enqueues
Sentinel ==
    [kind |-> "NONE", worker_id |-> 0, job_id |-> 0, payload |-> NotADict, job_done |-> FALSE]
NoItem ==
    [kind |-> "", worker_id |-> 0, job_id |-> 0, payload |-> NotADict, job_done |-> FALSE]

\* Payloads the workers may produce
Good(t, r) == Dict(<<Field("t", Num(t)), Field("root_val", Num(r)), Field("meta", MapV(0))>>)
Reordered(t, r) == Dict(<<Field("root_val", Num(r)), Field("meta", MapV(0)), Field("t", Num(t))>>)
NoMeta(t) == Dict(<<Field("t", Num(t)), Field("root_val", Num(0))>>)
BadRoot(t) == Dict(<<Field("t", Num(t)), Field("root_val", Str(0)), Field("meta", MapV(0))>>)
RawPayloads ==
    {Good(t, 0) : t \in 1..MaxT}
    \cup {Reordered(t, 0) : t \in 1..MaxT}
    \cup {Good(1, EpsRoot + 1), BadRoot(1)}
    \cup {NoMeta(1)}
\* Messages and job lists offered to the orchestrator under Spec
Msgs ==
    {Result(1, 1, p, jd) : p \in RawPayloads, jd \in BOOLEAN} \cup {Error(1, 1)}
JobLists == {<<1>>}

\* ---------------------------------------------------------------- state
VARIABLES
    lockFile,                 \* orchestrator.lock: 0 absent, else the pid written
    ledger,                   \* ledger.jsonl: sequence of lines
    snapshot,                 \* state.json
    checkpoints,              \* checkpoints/checkpoint_seq_<seq>.json
    seq,                      \* self.seq
    state,                    \* self.state
    accepted_payload_hashes,  \* self.accepted_payload_hashes
    q,                        \* self.q
    stop_event,               \* self.stop_event
    phase,                    \* where the process driving the orchestrator is
    rpc,                      \* where reducer_loop is
    item,                     \* reducer_loop: item
    verdict,                  \* reducer_loop: verdict
    accepted_since_ckpt,      \* reducer_loop: accepted_since_ckpt
    exc,                      \* the exception main() ended with, "" when none
    todo,                     \* per simulated worker: payloads it has still to submit
    ipc,                      \* per competing instance of main(): where it is, its fields
    job_q,                    \* run_orchestrator.main: job_q (0 is the poison pill None)
    out_q,                    \* run_orchestrator.main: out_q
    wpc,                      \* per worker_proc: where it is, the messages it has still to put
    mpc,                      \* main(): where it is after the resume, workers_exited
    tmp_file,                 \* state.json.tmp
    sv                        \* save_state: where a call followed step by step is

disk == <<lockFile, ledger, snapshot, checkpoints>>
memory == <<seq, state, accepted_payload_hashes, q, stop_event>>
reducer == <<rpc, item, verdict, accepted_since_ckpt>>
harness == <<job_q, out_q, wpc, mpc>>
saving == <<tmp_file, sv>>
vars == <<lockFile, ledger, snapshot, checkpoints, seq, state,
          accepted_payload_hashes, q, stop_event, phase, rpc, item, verdict,
          accepted_since_ckpt, exc, todo, ipc, harness, saving>>

Pid == 1

\* main() has not reached the harness part, no worker process exists
WorkerOff == [pc |-> "off", msgs |-> <<>>]
MainOff == [pc |-> "off", workers_exited |-> 0]
NoSave == [pc |-> "idle", attempt |-> 0, data |-> NoSnapshot]
HarnessOff ==
    /\ tmp_file = NoSnapshot
    /\ sv = NoSave
    /\ job_q = <<>>
    /\ out_q = <<>>
    /\ wpc = [w \in Workers |-> WorkerOff]
    /\ mpc = MainOff

\* The fields a new SingleWriterOrchestrator has (__init__), no thread running
FreshMemory ==
    /\ seq' = 0
    /\ state' = InitState
    /\ accepted_payload_hashes' = {}
    /\ q' = <<>>
    /\ stop_event' = FALSE
    /\ rpc' = "off"
    /\ item' = NoItem
    /\ verdict' = ""
    /\ accepted_since_ckpt' = 0

\* An empty run directory and a newly constructed orchestrator
Instances == {1, 2}
NoWork == [w \in Workers |-> <<>>]
Rival(pc, sq, st, hs) == [pc |-> pc, seq |-> sq, state |-> st, hashes |-> hs]
NoRivals == [i \in Instances |-> Rival("none", 0, InitState, {})]

Init ==
    /\ exc = ""
    /\ todo = NoWork
    /\ ipc = NoRivals
    /\ HarnessOff
    /\ lockFile = 0
    /\ ledger = <<>>
    /\ snapshot = NoSnapshot
    /\ checkpoints = {}
    /\ seq = 0
    /\ state = InitState
    /\ accepted_payload_hashes = {}
    /\ q = <<>>
    /\ stop_event = FALSE
    /\ phase = "constructed"
    /\ rpc = "off"
    /\ item = NoItem
    /\ verdict = ""
    /\ accepted_since_ckpt = 0

\* ------------------------------------------------------- process lifecycle
\* main(): SingleWriterOrchestrator(...) in a new process
Construct ==
    /\ phase = "down"
    /\ phase' = "constructed"
    /\ FreshMemory
    /\ exc' = ""
    /\ UNCHANGED <<disk, todo, ipc, harness, saving>>

\* Variant: an existing lock file is overwritten instead of refused
AcquireLockTakeover ==
    /\ phase = "constructed"
    /\ lockFile' = Pid
    /\ phase' = "locked"
    /\ UNCHANGED <<ledger, snapshot, checkpoints, memory, reducer, exc, todo, ipc, harness, saving>>

\* acquire_lock, and main() leaving through the exception when it raises
AcquireLock ==
    /\ phase = "constructed"
    /\ IF lockFile # 0
       THEN /\ phase' = "down"
            /\ exc' = "RuntimeError"
            /\ UNCHANGED lockFile
       ELSE /\ lockFile' = Pid
            /\ phase' = "locked"
            /\ UNCHANGED exc
    /\ UNCHANGED <<ledger, snapshot, checkpoints, memory, reducer, todo, ipc, harness, saving>>

\* The operator deletes an orphaned lock by hand while no instance runs
RemoveLockManually ==
    /\ phase = "down"
    /\ lockFile # 0
    /\ lockFile' = 0
    /\ UNCHANGED <<ledger, snapshot, checkpoints, memory, reducer, phase, exc, todo, ipc, harness, saving>>

LoadState ==
    /\ phase = "locked"
    /\ seq' = load_state(snapshot, seq, state).seq
    /\ state' = load_state(snapshot, seq, state).state
    /\ phase' = "loaded"
    /\ UNCHANGED <<disk, accepted_payload_hashes, q, stop_event, reducer, exc, todo, ipc, harness, saving>>

\* replay_ledger_for_dedup; on an exception main() runs its finally (release_lock)
\* and the process ends
Replay ==
    /\ phase = "loaded"
    /\ LET r == replay_ledger_for_dedup(ledger, seq, accepted_payload_hashes)
       IN  /\ seq' = r.seq
           /\ accepted_payload_hashes' = r.hashes
           /\ IF r.outcome = "ok"
              THEN /\ state' = [state EXCEPT !.seq = r.seq]
                   /\ phase' = "resumed"
                   /\ UNCHANGED <<lockFile, exc>>
              ELSE /\ state' = state
                   /\ phase' = "down"
                   /\ exc' = r.outcome
                   /\ lockFile' = 0
    /\ UNCHANGED <<ledger, snapshot, checkpoints, q, stop_event, reducer, todo, ipc, harness, saving>>

\* threading.Thread(target=orch.reducer_loop).start()
StartReducer ==
    /\ phase = "resumed"
    /\ phase' = "running"
    /\ rpc' = "idle"
    /\ accepted_since_ckpt' = 0
    /\ UNCHANGED <<disk, memory, item, verdict, exc, todo, ipc, harness, saving>>

\* The process dies at any point: memory is lost, the files stay as they are
Crash ==
    /\ phase # "down"
    /\ phase' = "down"
    /\ FreshMemory
    /\ exc' = "killed"
    /\ UNCHANGED <<disk, todo, ipc, harness, saving>>

\* --------------------------------------------------- calls of the main thread
Alive == phase \in {"resumed", "running"}

\* register_jobs(jobs), save_state included
RegisterJobs(jobs) ==
    /\ Alive
    /\ state' = register_jobs(state, jobs)
    /\ snapshot' = save_state(state')
    /\ UNCHANGED <<lockFile, ledger, checkpoints, seq, accepted_payload_hashes, q,
                   stop_event, phase, reducer, exc, todo, ipc, harness, saving>>

\* get_next_job(): saves only when a PENDING job was found
GetNextJob ==
    /\ Alive
    /\ state' = get_next_job(state)
    /\ snapshot' = IF FirstPending(state) # 0 THEN save_state(state') ELSE snapshot
    /\ UNCHANGED <<lockFile, ledger, checkpoints, seq, accepted_payload_hashes, q,
                   stop_event, phase, reducer, exc, todo, ipc, harness, saving>>

\* submit_from_worker(msg)
Submit(msg) ==
    /\ phase = "running"
    /\ Len(q) < MaxQueue
    /\ q' = Append(q, msg)
    /\ UNCHANGED <<disk, seq, state, accepted_payload_hashes, stop_event, phase, reducer,
                   exc, todo, ipc, harness, saving>>

\* Variant: shutdown() puts the sentinel in front of the waiting messages
ShutdownJumpsQueue ==
    /\ phase = "running"
    /\ ~stop_event
    /\ stop_event' = TRUE
    /\ q' = <<Sentinel>> \o q
    /\ UNCHANGED <<disk, seq, state, accepted_payload_hashes, phase, reducer, exc, todo, ipc, harness, saving>>

\* shutdown()
Shutdown ==
    /\ phase = "running"
    /\ ~stop_event
    /\ stop_event' = TRUE
    /\ q' = Append(q, Sentinel)
    /\ UNCHANGED <<disk, seq, state, accepted_payload_hashes, phase, reducer, exc, todo, ipc, harness, saving>>

\* main(): reducer_t.join(timeout=5) has returned (the reducer finished, or the
\* wait expired), then the finally clause runs release_lock
ReleaseLock ==
    /\ phase = "running"
    /\ stop_event
    /\ lockFile' = 0
    /\ phase' = "released"
    /\ UNCHANGED <<ledger, snapshot, checkpoints, memory, reducer, exc, todo, ipc, harness, saving>>

\* main() returns; the daemon reducer thread ends with the process
ProcessEnd ==
    /\ phase = "released"
    /\ phase' = "down"
    /\ FreshMemory
    /\ UNCHANGED <<disk, exc, todo, ipc, harness, saving>>

\* ------------------------------------------------------------ reducer_loop
ReducerRuns == phase \in {"running", "released"}

\* The checkpoint block of reducer_loop: (files, counter) after it
CheckpointFiles(cps, cnt, sq, st) ==
    IF cnt >= checkpoint_every
    THEN {c \in cps : c.seq # sq} \cup {[seq |-> sq, done |-> st.done, failed |-> st.failed]}
    ELSE cps
CheckpointCount(cnt) == IF cnt >= checkpoint_every THEN 0 ELSE cnt

\* item = self.q.get(), and the whole iteration unless the payload passes the
\* three gates; then accept_result goes on in ReducerAppend
\* (capLedger, capRejected, capErrors bound the ledger length and the counters)
ReducerDequeueCap(capLedger, capRejected, capErrors) ==
    /\ ReducerRuns
    /\ rpc = "idle"
    /\ q # <<>>
    /\ LET m == Head(q) IN
       /\ q' = Tail(q)
       /\ item' = m
       /\ CASE m.kind = "NONE" ->
                 /\ rpc' = "exited"
                 /\ UNCHANGED <<disk, seq, state, accepted_payload_hashes, verdict,
                                accepted_since_ckpt>>
            [] m.kind = "ERROR" ->
                 /\ IF HasJob(state, m.job_id)
                    THEN /\ state.jobs[JobIndex(state, m.job_id)].attempts < capErrors
                         /\ state' = mark_job_failed(state, m.job_id, 1)
                         /\ snapshot' = save_state(state')
                         /\ rpc' = "idle"
                    ELSE /\ rpc' = "dead"      \* KeyError ends the thread
                         /\ UNCHANGED <<state, snapshot>>
                 /\ UNCHANGED <<lockFile, ledger, checkpoints, seq,
                                accepted_payload_hashes, verdict, accepted_since_ckpt>>
            [] OTHER ->
                 LET v == Gates(m.payload, accepted_payload_hashes) IN
                 CASE v \in {"REJECTED_SCHEMA", "REJECTED_TOL"} ->
                        /\ state.rejected < capRejected
                        /\ state' = [state EXCEPT !.rejected = @ + 1]
                        /\ snapshot' = save_state(state')
                        /\ verdict' = v
                        /\ checkpoints' = CheckpointFiles(checkpoints, accepted_since_ckpt, seq, state')
                        /\ accepted_since_ckpt' = CheckpointCount(accepted_since_ckpt)
                        /\ rpc' = "idle"
                        /\ UNCHANGED <<lockFile, ledger, seq, accepted_payload_hashes>>
                   [] v = "REJECTED_DUP" ->
                        /\ verdict' = v
                        /\ checkpoints' = CheckpointFiles(checkpoints, accepted_since_ckpt, seq, state)
                        /\ accepted_since_ckpt' = CheckpointCount(accepted_since_ckpt)
                        /\ rpc' = "idle"
                        /\ UNCHANGED <<lockFile, ledger, snapshot, seq, state,
                                       accepted_payload_hashes>>
                   [] OTHER ->
                        /\ Len(ledger) < capLedger
                        /\ seq' = NextSeq(seq)
                        /\ rpc' = "append"
                        /\ UNCHANGED <<disk, state, accepted_payload_hashes, verdict,
                                       accepted_since_ckpt>>
    /\ UNCHANGED <<stop_event, phase, exc, todo, ipc, harness, saving>>

ReducerDequeue == ReducerDequeueCap(MaxLedger, MaxRejected, MaxErrors)

\* Variant: the snapshot is persisted where the event should be appended
ReducerPersistBeforeAppend ==
    /\ ReducerRuns
    /\ rpc = "append"
    /\ state' = [state EXCEPT !.seq = seq]
    /\ snapshot' = save_state(state')
    /\ rpc' = "mark"
    /\ UNCHANGED <<lockFile, ledger, checkpoints, seq, accepted_payload_hashes, q,
                   stop_event, phase, item, verdict, accepted_since_ckpt, exc, todo, ipc, harness, saving>>

\* Variant: append_ledger opens the file with mode "w" instead of "a"
ReducerAppendTruncate ==
    /\ ReducerRuns
    /\ rpc = "append"
    /\ \E ts \in 0..MaxClock :
          ledger' = <<to_jsonl_line(
                       from_parts(RunId, item.worker_id, item.job_id, seq, item.payload, ts))>>
    /\ rpc' = "mark"
    /\ UNCHANGED <<lockFile, snapshot, checkpoints, memory, phase, item, verdict,
                   accepted_since_ckpt, exc, todo, ipc, harness, saving>>

\* accept_result: evt = LedgerEvent.from_parts(...); self.append_ledger(evt)
ReducerAppend ==
    /\ ReducerRuns
    /\ rpc = "append"
    /\ \E ts \in 0..MaxClock :
          ledger' = Append(ledger, to_jsonl_line(
                       from_parts(RunId, item.worker_id, item.job_id, seq, item.payload, ts)))
    /\ rpc' = "mark"
    /\ UNCHANGED <<lockFile, snapshot, checkpoints, memory, phase, item, verdict,
                   accepted_since_ckpt, exc, todo, ipc, harness, saving>>

\* Variant: the hash of an accepted payload is not added to the index
ReducerMarkSkip ==
    /\ ReducerRuns
    /\ rpc = "mark"
    /\ accepted_payload_hashes' = accepted_payload_hashes
    /\ rpc' = "save"
    /\ UNCHANGED <<disk, seq, state, q, stop_event, phase, item, verdict,
                   accepted_since_ckpt, exc, todo, ipc, harness, saving>>

\* accept_result: self.accepted_payload_hashes.add(ph)
ReducerMark ==
    /\ ReducerRuns
    /\ rpc = "mark"
    /\ accepted_payload_hashes' = accepted_payload_hashes \cup {sha256_json(item.payload)}
    /\ rpc' = "save"
    /\ UNCHANGED <<disk, seq, state, q, stop_event, phase, item, verdict,
                   accepted_since_ckpt, exc, todo, ipc, harness, saving>>

\* accept_result: self.state["seq"] = self.seq; self.save_state(); return "ACCEPTED"
ReducerSave ==
    /\ ReducerRuns
    /\ rpc = "save"
    /\ state' = [state EXCEPT !.seq = seq]
    /\ snapshot' = save_state(state')
    /\ verdict' = "ACCEPTED"
    /\ rpc' = "accepted"
    /\ UNCHANGED <<lockFile, ledger, checkpoints, seq, accepted_payload_hashes, q,
                   stop_event, phase, item, accepted_since_ckpt, exc, todo, ipc, harness, saving>>

\* Variant: mark_job_done is called whatever the job_done flag says
ReducerAfterAcceptAnyFlag ==
    /\ ReducerRuns
    /\ rpc = "accepted"
    /\ IF ~HasJob(state, item.job_id)
       THEN /\ rpc' = "dead"
            /\ accepted_since_ckpt' = accepted_since_ckpt + 1
            /\ UNCHANGED <<state, snapshot, checkpoints>>
       ELSE /\ state' = mark_job_done(state, item.job_id)
            /\ snapshot' = save_state(state')
            /\ checkpoints' = CheckpointFiles(checkpoints, accepted_since_ckpt + 1, seq, state')
            /\ accepted_since_ckpt' = CheckpointCount(accepted_since_ckpt + 1)
            /\ rpc' = "idle"
    /\ UNCHANGED <<lockFile, ledger, seq, accepted_payload_hashes, q, stop_event,
                   phase, item, verdict, exc, todo, ipc, harness, saving>>

\* reducer_loop after an ACCEPTED verdict: count, mark_job_done, checkpoint
ReducerAfterAccept ==
    /\ ReducerRuns
    /\ rpc = "accepted"
    /\ IF item.job_done /\ ~HasJob(state, item.job_id)
       THEN /\ rpc' = "dead"                  \* KeyError ends the thread
            /\ accepted_since_ckpt' = accepted_since_ckpt + 1
            /\ UNCHANGED <<state, snapshot, checkpoints>>
       ELSE /\ state' = IF item.job_done THEN mark_job_done(state, item.job_id) ELSE state
            /\ snapshot' = IF item.job_done THEN save_state(state') ELSE snapshot
            /\ checkpoints' = CheckpointFiles(checkpoints, accepted_since_ckpt + 1, seq, state')
            /\ accepted_since_ckpt' = CheckpointCount(accepted_since_ckpt + 1)
            /\ rpc' = "idle"
    /\ UNCHANGED <<lockFile, ledger, seq, accepted_payload_hashes, q, stop_event,
                   phase, item, verdict, exc, todo, ipc, harness, saving>>

Next ==
    \/ Construct
    \/ AcquireLock
    \/ RemoveLockManually
    \/ LoadState
    \/ Replay
    \/ StartReducer
    \/ Crash
    \/ \E jobs \in JobLists : RegisterJobs(jobs)
    \/ GetNextJob
    \/ \E msg \in Msgs : Submit(msg)
    \/ Shutdown
    \/ ReleaseLock
    \/ ProcessEnd
    \/ ReducerDequeue
    \/ ReducerAppend
    \/ ReducerMark
    \/ ReducerSave
    \/ ReducerAfterAccept

Spec == Init /\ [][Next]_vars

\* ------------------------------------------------- resume over found files
\* Ledger lines a resume may find: events written by append_ledger, and lines
\* damaged or foreign in the ways json.loads and the loop body tell apart.
EventLine(sq, p) == to_jsonl_line(from_parts(RunId, 1, 1, sq, p, 0))
Malformed(form, pp, payload, seqv) == Line(form, pp, payload, seqv, RunId, 1, 1, 0, NoHash)
FoundLines ==
    {EventLine(sq, p) : sq \in 1..MaxLines, p \in {Good(1, 0), Reordered(1, 0), Good(2, 0)}}
    \cup {Malformed("blank", FALSE, NotADict, Absent),
          Malformed("garbage", FALSE, NotADict, Absent),
          Malformed("nonobject", FALSE, NotADict, Absent),
          Malformed("object", FALSE, NotADict, Num(1)),       \* no payload key
          Malformed("object", TRUE, NotADict, Num(1)),        \* payload is no map
          Malformed("object", TRUE, Good(2, 0), Absent),      \* no seq key
          Malformed("object", TRUE, Good(2, 0), Str(0)),      \* seq is a word
          Malformed("object", TRUE, Good(2, 0), Null)}        \* seq is null
FoundLedgers == UNION {[1..n -> FoundLines] : n \in 0..MaxLines}
FoundSnapshots ==
    {NoSnapshot} \cup
    {SnapshotOf([InitState EXCEPT !.seq = sq, !.rejected = r]) : sq \in 0..MaxSnapSeq, r \in 0..1}

\* main() has constructed the orchestrator and holds the lock
InitResume ==
    /\ exc = ""
    /\ todo = NoWork
    /\ ipc = NoRivals
    /\ HarnessOff
    /\ lockFile = Pid
    /\ ledger \in FoundLedgers
    /\ snapshot \in FoundSnapshots
    /\ checkpoints = {}
    /\ seq = 0
    /\ state = InitState
    /\ accepted_payload_hashes = {}
    /\ q = <<>>
    /\ stop_event = FALSE
    /\ phase = "locked"
    /\ rpc = "off"
    /\ item = NoItem
    /\ verdict = ""
    /\ accepted_since_ckpt = 0

NextResume ==
    \/ LoadState
    \/ Replay

SpecResume == InitResume /\ [][NextResume]_vars

\* ------------------------------------- two instances of main() on one run dir
\* Each instance runs main() as its own process with its own orchestrator
\* object (seq, state, accepted_payload_hashes); acquire_lock is two system
\* calls, os.path.exists and open(..., "w"). The lock file holds the pid of the
\* instance that wrote it last. An instance at work accepts results, each
\* accept_result call taken as one step.
InitLock ==
    /\ exc = ""
    /\ todo = NoWork
    /\ ipc = [i \in Instances |-> Rival("constructed", 0, InitState, {})]
    /\ HarnessOff
    /\ lockFile = 0
    /\ ledger = <<>>
    /\ snapshot = NoSnapshot
    /\ checkpoints = {}
    /\ seq = 0
    /\ state = InitState
    /\ accepted_payload_hashes = {}
    /\ q = <<>>
    /\ stop_event = FALSE
    /\ phase = "down"
    /\ rpc = "off"
    /\ item = NoItem
    /\ verdict = ""
    /\ accepted_since_ckpt = 0

others == <<checkpoints, memory, reducer, phase, exc, todo, harness, saving>>

\* acquire_lock: if os.path.exists(self.lock_path): raise RuntimeError
IAcquireCheck(i) ==
    /\ ipc[i].pc = "constructed"
    /\ ipc' = [ipc EXCEPT ![i].pc = IF lockFile # 0 THEN "refused" ELSE "checked"]
    /\ UNCHANGED <<lockFile, ledger, snapshot, others>>

\* acquire_lock: with open(self.lock_path, "w") as f: f.write(str(os.getpid()))
IAcquireCreate(i) ==
    /\ ipc[i].pc = "checked"
    /\ ipc' = [ipc EXCEPT ![i].pc = "locked"]
    /\ lockFile' = i
    /\ UNCHANGED <<ledger, snapshot, others>>

\* main(): orch.load_state()
ILoadState(i) ==
    /\ ipc[i].pc = "locked"
    /\ LET r == load_state(snapshot, ipc[i].seq, ipc[i].state)
       IN  ipc' = [ipc EXCEPT ![i] = Rival("loaded", r.seq, r.state, @.hashes)]
    /\ UNCHANGED <<lockFile, ledger, snapshot, others>>

\* main(): orch.replay_ledger_for_dedup() (every line here is a written event)
IReplay(i) ==
    /\ ipc[i].pc = "loaded"
    /\ LET r == replay_ledger_for_dedup(ledger, ipc[i].seq, ipc[i].hashes)
       IN  ipc' = [ipc EXCEPT ![i] =
                      Rival("resumed", r.seq, [@.state EXCEPT !.seq = r.seq], r.hashes)]
    /\ UNCHANGED <<lockFile, ledger, snapshot, others>>

\* main(): orch.register_jobs(jobs); the reducer thread and the workers start
IRun(i) ==
    /\ ipc[i].pc = "resumed"
    /\ LET st == register_jobs(ipc[i].state, <<1>>)
       IN  /\ ipc' = [ipc EXCEPT ![i].pc = "running", ![i].state = st]
           /\ snapshot' = save_state(st)
    /\ UNCHANGED <<lockFile, ledger, others>>

\* The instance's reducer accepts a result: accept_result up to its return
IAccept(i, p) ==
    /\ ipc[i].pc = "running"
    /\ Gates(p, ipc[i].hashes) = "PASS"
    /\ Len(ledger) < MaxLedger
    /\ LET sq == NextSeq(ipc[i].seq)
           st == [ipc[i].state EXCEPT !.seq = sq]
       IN  /\ ledger' = Append(ledger, to_jsonl_line(from_parts(RunId, i, 1, sq, p, 0)))
           /\ ipc' = [ipc EXCEPT ![i] =
                         Rival("running", sq, st, @.hashes \cup {sha256_json(p)})]
           /\ snapshot' = save_state(st)
    /\ UNCHANGED <<lockFile, others>>

\* main(): finally: orch.release_lock() -- os.remove, whoever wrote the file;
\* the process ends
IReleaseLock(i) ==
    /\ ipc[i].pc = "running"
    /\ ipc' = [ipc EXCEPT ![i] = Rival("ended", 0, InitState, {})]
    /\ lockFile' = 0
    /\ UNCHANGED <<ledger, snapshot, others>>

\* main() is started again after it ended or was refused
IRestart(i) ==
    /\ ipc[i].pc \in {"ended", "refused"}
    /\ ipc' = [ipc EXCEPT ![i] = Rival("constructed", 0, InitState, {})]
    /\ UNCHANGED <<lockFile, ledger, snapshot, others>>

NextLock ==
    \E i \in Instances :
        \/ IAcquireCheck(i)
        \/ IAcquireCreate(i)
        \/ ILoadState(i)
        \/ IReplay(i)
        \/ IRun(i)
        \/ \E t \in 1..MaxT : IAccept(i, Good(t, 0))
        \/ IReleaseLock(i)
        \/ IRestart(i)

SpecLock == InitLock /\ [][NextLock]_vars

\* ------------------------------------------- concurrent submission (workers)
\* NumConc pairwise distinct, valid, in-tolerance payloads, dealt to two
\* simulated workers in every possible way; each worker submits its share in order.
Perms == {f \in [1..NumConc -> 1..NumConc] : \A a, b \in 1..NumConc : a # b => f[a] # f[b]}
Deal(perm, k) ==
    [w \in Workers |->
        IF w = 1 THEN [i \in 1..k |-> Good(perm[i], 0)]
        ELSE [i \in 1..(NumConc - k) |-> Good(perm[k + i], 0)]]

InitConc ==
    /\ exc = ""
    /\ todo \in {Deal(perm, k) : perm \in Perms, k \in 0..NumConc}
    /\ ipc = NoRivals
    /\ HarnessOff
    /\ lockFile = 0
    /\ ledger = <<>>
    /\ snapshot = NoSnapshot
    /\ checkpoints = {}
    /\ seq = 0
    /\ state = InitState
    /\ accepted_payload_hashes = {}
    /\ q = <<>>
    /\ stop_event = FALSE
    /\ phase = "constructed"
    /\ rpc = "off"
    /\ item = NoItem
    /\ verdict = ""
    /\ accepted_since_ckpt = 0

\* A worker thread calls submit_from_worker with its next payload
WorkerSubmit(w) ==
    /\ phase = "running"
    /\ todo[w] # <<>>
    /\ q' = Append(q, Result(w, 1, Head(todo[w]), FALSE))
    /\ todo' = [todo EXCEPT ![w] = Tail(@)]
    /\ UNCHANGED <<disk, seq, state, accepted_payload_hashes, stop_event, phase, reducer,
                   exc, ipc, harness, saving>>

ReducerDequeueConc == ReducerDequeueCap(NumConc, 0, 0)

NextConc ==
    \/ AcquireLock
    \/ LoadState
    \/ Replay
    \/ StartReducer
    \/ \E w \in Workers : WorkerSubmit(w)
    \/ ReducerDequeueConc
    \/ ReducerAppend
    \/ ReducerMark
    \/ ReducerSave
    \/ ReducerAfterAccept

SpecConc == InitConc /\ [][NextConc]_vars

\* ------------------------------------------------ job life cycle (SpecJobs)
\* One orchestrator on an empty run directory, no crash: the main thread
\* registers job lists and hands jobs out, and any RESULT message naming
\* job 1 or 2 and any ERROR message naming job 1 may arrive, whatever the
\* status of the job it names (reducer_loop and the mark_job_* methods do
\* not look at the status).
JobPayloads == {Good(1, 0), NoMeta(1), Good(1, EpsRoot + 1)}
JobMsgs ==
    {Result(1, j, p, jd) : j \in JobIds, p \in JobPayloads, jd \in BOOLEAN}
    \cup {Error(1, 1)}
JobListsAll == {<<1>>, <<2, 1>>}

ReducerDequeueJobs == ReducerDequeueCap(MaxJobLedger, MaxJobRejected, MaxAttemptsSeen)

NextJobs ==
    \/ AcquireLock
    \/ LoadState
    \/ Replay
    \/ StartReducer
    \/ \E jobs \in JobListsAll : RegisterJobs(jobs)
    \/ GetNextJob
    \/ \E msg \in JobMsgs : Submit(msg)
    \/ ReducerDequeueJobs
    \/ ReducerAppend
    \/ ReducerMark
    \/ ReducerSave
    \/ ReducerAfterAccept

SpecJobs == Init /\ [][NextJobs]_vars

\* --------------------------------------------- tolerance gate (SpecTol)
\* A running orchestrator with an empty ledger whose queue holds two RESULT
\* messages; the payloads are schema valid, with root_val around the two
\* boundaries -eps and eps, and 1e-9 (100) and 1e-11 (1) on either side.
TolRoots ==
    ((0 - (EpsRoot + MaxOver))..(EpsRoot + MaxOver)) \cup {0 - 10 * EpsRoot, 10 * EpsRoot}
TolMsgs == {Result(1, 1, Good(1, r), FALSE) : r \in TolRoots}

InitTol ==
    /\ exc = ""
    /\ todo = NoWork
    /\ ipc = NoRivals
    /\ HarnessOff
    /\ lockFile = Pid
    /\ ledger = <<>>
    /\ snapshot = NoSnapshot
    /\ checkpoints = {}
    /\ seq = 0
    /\ state = InitState
    /\ accepted_payload_hashes = {}
    /\ q \in {<<m1, m2>> : m1 \in TolMsgs, m2 \in TolMsgs}
    /\ stop_event = FALSE
    /\ phase = "running"
    /\ rpc = "idle"
    /\ item = NoItem
    /\ verdict = ""
    /\ accepted_since_ckpt = 0

ReducerDequeueTol == ReducerDequeueCap(2, 2, 0)

NextTol ==
    \/ ReducerDequeueTol
    \/ ReducerAppend
    \/ ReducerMark
    \/ ReducerSave
    \/ ReducerAfterAccept

SpecTol == InitTol /\ [][NextTol]_vars

\* ------------------------------------------ ledger verification (SpecTamper)
\* A full verification pass over the ledger: the hash of every line is
\* computed again from the line's other fields, the way from_parts computed
\* it, and compared with the stored one; the pass reports the indices of the
\* lines that differ.
RecomputeHash(l) ==
    from_parts(l.run_id, l.worker_id, l.job_id, l.seqv.n, l.payload, l.ts).hash
LineVerifies(l) == l.form = "object" /\ l.seqv.ty = "num" /\ l.hash = RecomputeHash(l)
verify_ledger(lines) == {i \in DOMAIN lines : ~LineVerifies(lines[i])}

\* Ledgers as the reducer writes them: line i carries seq i and a payload of
\* its own, from either worker, its keys in either order.
WrittenLines(i) ==
    {to_jsonl_line(from_parts(RunId, w, 1, i, p, ts)) :
        w \in Workers, p \in {Good(i, 0), Reordered(i, 0)}, ts \in 0..MaxClock}
WrittenLedgers ==
    UNION {{l \in [1..n -> UNION {WrittenLines(i) : i \in 1..n}] :
              \A i \in 1..n : l[i] \in WrittenLines(i)} : n \in 1..MaxLines}

\* The values someone editing the file may put in place of a field's value
TamperFields == {"run_id", "worker_id", "job_id", "seqv", "payload", "ts", "hash"}
TamperValues(f) ==
    CASE f = "run_id" -> {RunId, "Other"}
      [] f = "worker_id" -> Workers \cup {0}
      [] f = "job_id" -> JobIds
      [] f = "seqv" -> {Num(n) : n \in 0..(MaxLines + 1)}
      [] f = "payload" -> {Good(t, r) : t \in 1..MaxT, r \in 0..1} \cup {Reordered(1, 0)}
      [] f = "ts" -> 0..(MaxClock + 1)
      [] OTHER -> {from_parts(RunId, w, 1, n, Good(1, 0), 0).hash :
                      w \in Workers, n \in 1..MaxLines} \cup {NoHash}
\* the new value is another JSON value than the old one (a payload with its
\* keys in another order is the same JSON object)
Differs(f, old, new) ==
    IF f = "payload" THEN sha256_json(old) # sha256_json(new) ELSE old # new

\* The run has ended cleanly and left its files behind
InitTamper ==
    /\ exc = ""
    /\ todo = NoWork
    /\ ipc = NoRivals
    /\ HarnessOff
    /\ lockFile = 0
    /\ ledger \in WrittenLedgers
    /\ snapshot = SnapshotOf([InitState EXCEPT !.seq = Len(ledger)])
    /\ checkpoints = {}
    /\ seq = 0
    /\ state = InitState
    /\ accepted_payload_hashes = {}
    /\ q = <<>>
    /\ stop_event = FALSE
    /\ phase = "down"
    /\ rpc = "off"
    /\ item = NoItem
    /\ verdict = ""
    /\ accepted_since_ckpt = 0

\* One field of one line of the file is changed, once
Tamper(i, f, v) ==
    /\ phase = "down"
    /\ verify_ledger(ledger) = {}
    /\ i \in DOMAIN ledger
    /\ Differs(f, ledger[i][f], v)
    /\ ledger' = [ledger EXCEPT ![i][f] = v]
    /\ UNCHANGED <<lockFile, snapshot, checkpoints, memory, reducer, phase, exc, todo, ipc, harness, saving>>

NextTamper ==
    \E i \in 1..MaxLines, f \in TamperFields : \E v \in TamperValues(f) : Tamper(i, f, v)

SpecTamper == InitTamper /\ [][NextTamper]_vars

\* ------------------------------------------------- gate order (SpecGates)
\* An orchestrator resumes over the ledger an earlier run left: empty, or one
\* event, accepted under this eps_root or under a wider one (eps_root is a
\* constructor argument, so the ledger may hold a payload this run's
\* tolerance gate turns down). Then RESULT messages arrive whose payloads
\* fail any combination of the gates.
NoMetaBig == Dict(<<Field("t", Num(1)), Field("root_val", Num(EpsRoot + 1))>>)
GateLedgers ==
    {<<>>} \cup {<<EventLine(1, p)>> : p \in {Good(1, 0), Good(1, EpsRoot + 1)}}
GatePayloads ==
    {Good(1, 0), Reordered(1, 0), Good(1, EpsRoot + 1), Reordered(1, EpsRoot + 1),
     Good(2, 0), NoMeta(1), NoMetaBig, BadRoot(1), NotADict}
GateMsgs == {Result(1, 1, p, FALSE) : p \in GatePayloads}

InitGates ==
    /\ exc = ""
    /\ todo = NoWork
    /\ ipc = NoRivals
    /\ HarnessOff
    /\ lockFile = Pid
    /\ ledger \in GateLedgers
    /\ snapshot = SnapshotOf([InitState EXCEPT !.seq = Len(ledger)])
    /\ checkpoints = {}
    /\ seq = 0
    /\ state = InitState
    /\ accepted_payload_hashes = {}
    /\ q = <<>>
    /\ stop_event = FALSE
    /\ phase = "locked"
    /\ rpc = "off"
    /\ item = NoItem
    /\ verdict = ""
    /\ accepted_since_ckpt = 0

ReducerDequeueGates == ReducerDequeueCap(2, 2, 0)

NextGates ==
    \/ LoadState
    \/ Replay
    \/ StartReducer
    \/ \E msg \in GateMsgs : Submit(msg)
    \/ ReducerDequeueGates
    \/ ReducerAppend
    \/ ReducerMark
    \/ ReducerSave
    \/ ReducerAfterAccept

SpecGates == InitGates /\ [][NextGates]_vars

\* ------------------------------------------- the harness (run_orchestrator.py)
\* One run of main() in an empty run directory with two worker processes and
\* the jobs HarnessJobs; job j has t_start = j.
HarnessJobs == <<1, 2>>
Pill == 0
WorkerExit(w) ==
    [kind |-> "WORKER_EXIT", worker_id |-> w, job_id |-> 0, payload |-> NotADict,
     job_done |-> FALSE]
\* the payload worker_proc sends with job_done when the job has no candidates
EmptyPayload(j) ==
    Dict(<<Field("t", Num(j)), Field("root_val", Num(0)), Field("meta", MapV(1))>>)
\* compute_zero_candidates(t_start, t_end, stride): raises, or returns a list
ComputeOutcomes(j) ==
    {[raises |-> TRUE, payloads |-> <<>>],
     [raises |-> FALSE, payloads |-> <<>>],
     [raises |-> FALSE, payloads |-> <<Good(j, 0)>>],
     [raises |-> FALSE, payloads |-> <<Good(j, 0), Good(j, 1)>>]}
\* Variant: the completion message is put after the ERROR message too
worker_msgs_done_after_error(w, j, o) ==
    (IF o.raises THEN <<Error(w, j)>>
     ELSE [i \in 1..Len(o.payloads) |-> Result(w, j, o.payloads[i], FALSE)])
    \o <<Result(w, j, IF o.payloads # <<>> THEN o.payloads[Len(o.payloads)]
                      ELSE EmptyPayload(j), TRUE)>>

\* the messages worker_proc puts for one job
worker_msgs(w, j, o) ==
    IF o.raises THEN <<Error(w, j)>>
    ELSE [i \in 1..Len(o.payloads) |-> Result(w, j, o.payloads[i], FALSE)]
         \o <<Result(w, j, IF o.payloads # <<>> THEN o.payloads[Len(o.payloads)]
                           ELSE EmptyPayload(j), TRUE)>>
AllPills == [i \in 1..Cardinality(Workers) |-> Pill]

\* main(): orch.register_jobs(jobs)
HarnessRegister ==
    /\ phase = "resumed"
    /\ mpc.pc = "off"
    /\ state' = register_jobs(state, HarnessJobs)
    /\ snapshot' = save_state(state')
    /\ mpc' = [mpc EXCEPT !.pc = "registered"]
    /\ UNCHANGED <<lockFile, ledger, checkpoints, seq, accepted_payload_hashes, q,
                   stop_event, phase, reducer, exc, todo, ipc, job_q, out_q, wpc, saving>>

\* main(): the reducer thread and the worker processes are started
HarnessStart ==
    /\ phase = "resumed"
    /\ mpc.pc = "registered"
    /\ phase' = "running"
    /\ rpc' = "idle"
    /\ accepted_since_ckpt' = 0
    /\ wpc' = [w \in Workers |-> [pc |-> "get", msgs |-> <<>>]]
    /\ mpc' = [mpc EXCEPT !.pc = "dispatch"]
    /\ UNCHANGED <<disk, memory, item, verdict, exc, todo, ipc, job_q, out_q, saving>>

\* main(), phase 1: one iteration of the dispatch loop
HarnessDispatch ==
    /\ phase = "running"
    /\ mpc.pc = "dispatch"
    /\ IF FirstPending(state) = 0
       THEN /\ mpc' = [mpc EXCEPT !.pc = "pills"]
            /\ UNCHANGED <<state, snapshot, job_q>>
       ELSE /\ state' = get_next_job(state)
            /\ snapshot' = save_state(state')
            /\ job_q' = Append(job_q, state.jobs[FirstPending(state)].job_id)
            /\ mpc' = mpc
    /\ UNCHANGED <<lockFile, ledger, checkpoints, seq, accepted_payload_hashes, q,
                   stop_event, phase, reducer, exc, todo, ipc, out_q, wpc, saving>>

\* main(): one poison pill per worker
HarnessPills ==
    /\ phase = "running"
    /\ mpc.pc = "pills"
    /\ job_q' = job_q \o AllPills
    /\ mpc' = [mpc EXCEPT !.pc = "drain"]
    /\ UNCHANGED <<disk, memory, reducer, phase, exc, todo, ipc, out_q, wpc, saving>>

\* Variant: the drained message overtakes the messages waiting in the reducer's queue
HarnessDrainOvertake ==
    /\ phase = "running"
    /\ mpc.pc = "drain"
    /\ IF mpc.workers_exited < Cardinality(Workers)
       THEN /\ out_q # <<>>
            /\ out_q' = Tail(out_q)
            /\ IF Head(out_q).kind = "WORKER_EXIT"
               THEN /\ mpc' = [mpc EXCEPT !.workers_exited = @ + 1]
                    /\ q' = q
               ELSE /\ q' = <<Head(out_q)>> \o q
                    /\ mpc' = mpc
       ELSE /\ mpc' = [mpc EXCEPT !.pc = "final"]
            /\ UNCHANGED <<q, out_q>>
    /\ UNCHANGED <<disk, seq, state, accepted_payload_hashes, stop_event, phase, reducer,
                   exc, todo, ipc, job_q, wpc, saving>>

\* main(), phase 2: one iteration of the drain loop (out_q.get returned a message),
\* or the loop ends
HarnessDrain ==
    /\ phase = "running"
    /\ mpc.pc = "drain"
    /\ IF mpc.workers_exited < Cardinality(Workers)
       THEN /\ out_q # <<>>
            /\ out_q' = Tail(out_q)
            /\ IF Head(out_q).kind = "WORKER_EXIT"
               THEN /\ mpc' = [mpc EXCEPT !.workers_exited = @ + 1]
                    /\ q' = q
               ELSE /\ q' = Append(q, Head(out_q))
                    /\ mpc' = mpc
       ELSE /\ mpc' = [mpc EXCEPT !.pc = "final"]
            /\ UNCHANGED <<q, out_q>>
    /\ UNCHANGED <<disk, seq, state, accepted_payload_hashes, stop_event, phase, reducer,
                   exc, todo, ipc, job_q, wpc, saving>>

\* main(): the final drain with get_nowait, until the queue is empty
HarnessFinalDrain ==
    /\ phase = "running"
    /\ mpc.pc = "final"
    /\ IF out_q # <<>>
       THEN /\ out_q' = Tail(out_q)
            /\ q' = IF Head(out_q).kind # "WORKER_EXIT" THEN Append(q, Head(out_q)) ELSE q
            /\ mpc' = mpc
       ELSE /\ mpc' = [mpc EXCEPT !.pc = "shutdown"]
            /\ UNCHANGED <<q, out_q>>
    /\ UNCHANGED <<disk, seq, state, accepted_payload_hashes, stop_event, phase, reducer,
                   exc, todo, ipc, job_q, wpc, saving>>

\* main(): the workers are joined, time.sleep(1.0), orch.shutdown()
HarnessShutdown ==
    /\ phase = "running"
    /\ mpc.pc = "shutdown"
    /\ stop_event' = TRUE
    /\ q' = Append(q, Sentinel)
    /\ mpc' = [mpc EXCEPT !.pc = "join"]
    /\ UNCHANGED <<disk, seq, state, accepted_payload_hashes, phase, reducer, exc, todo,
                   ipc, job_q, out_q, wpc, saving>>

\* main(): reducer_t.join(timeout=5) has returned (the reducer finished, or the
\* wait expired), the summary is printed, the finally clause runs release_lock
HarnessRelease ==
    /\ phase = "running"
    /\ mpc.pc = "join"
    /\ lockFile' = 0
    /\ phase' = "released"
    /\ mpc' = [mpc EXCEPT !.pc = "end"]
    /\ UNCHANGED <<ledger, snapshot, checkpoints, memory, reducer, exc, todo, ipc,
                   job_q, out_q, wpc, saving>>

\* worker_proc: job = job_q.get(); on a job, compute_zero_candidates runs
WorkerGet(w) ==
    /\ wpc[w].pc = "get"
    /\ job_q # <<>>
    /\ job_q' = Tail(job_q)
    /\ IF Head(job_q) = Pill
       THEN wpc' = [wpc EXCEPT ![w] = [pc |-> "exit", msgs |-> <<>>]]
       ELSE \E o \in ComputeOutcomes(Head(job_q)) :
               wpc' = [wpc EXCEPT ![w] = [pc |-> "put", msgs |-> worker_msgs(w, Head(job_q), o)]]
    /\ UNCHANGED <<disk, memory, reducer, phase, exc, todo, ipc, out_q, mpc, saving>>

\* worker_proc: one out_q.put of the job's messages
WorkerPut(w) ==
    /\ wpc[w].pc = "put"
    /\ out_q' = Append(out_q, Head(wpc[w].msgs))
    /\ wpc' = [wpc EXCEPT ![w] = [pc |-> IF Len(wpc[w].msgs) = 1 THEN "get" ELSE "put",
                                  msgs |-> Tail(wpc[w].msgs)]]
    /\ UNCHANGED <<disk, memory, reducer, phase, exc, todo, ipc, job_q, mpc, saving>>

\* worker_proc: out_q.put({"kind": "WORKER_EXIT", ...}) and the process ends
WorkerLeave(w) ==
    /\ wpc[w].pc = "exit"
    /\ out_q' = Append(out_q, WorkerExit(w))
    /\ wpc' = [wpc EXCEPT ![w] = [pc |-> "done", msgs |-> <<>>]]
    /\ UNCHANGED <<disk, memory, reducer, phase, exc, todo, ipc, job_q, mpc, saving>>

ReducerDequeueHarness == ReducerDequeueCap(2 * Len(HarnessJobs), 1, max_attempts)

NextHarness ==
    \/ AcquireLock
    \/ LoadState
    \/ Replay
    \/ HarnessRegister
    \/ HarnessStart
    \/ HarnessDispatch
    \/ HarnessPills
    \/ HarnessDrain
    \/ HarnessFinalDrain
    \/ HarnessShutdown
    \/ HarnessRelease
    \/ ProcessEnd
    \/ \E w \in Workers : WorkerGet(w)
    \/ \E w \in Workers : WorkerPut(w)
    \/ \E w \in Workers : WorkerLeave(w)
    \/ ReducerDequeueHarness
    \/ ReducerAppend
    \/ ReducerMark
    \/ ReducerSave
    \/ ReducerAfterAccept

SpecHarness == Init /\ [][NextHarness]_vars

\* ------------------------------------ scheduling order across restarts (SpecOrder)
\* The jobs are registered in the order RegistrationOrder, whose ids do not sort
\* that way; ERROR messages return jobs to PENDING; the process can die, the
\* lock be removed by hand, and a new process resume from the snapshot.
RegistrationOrder == <<2, 1>>
OrderMsgs == {Error(1, j) : j \in JobIds}
ReducerDequeueOrder == ReducerDequeueCap(0, 0, max_attempts)

NextOrder ==
    \/ Construct
    \/ AcquireLock
    \/ RemoveLockManually
    \/ LoadState
    \/ Replay
    \/ StartReducer
    \/ Crash
    \/ RegisterJobs(RegistrationOrder)
    \/ GetNextJob
    \/ \E msg \in OrderMsgs : Submit(msg)
    \/ ReducerDequeueOrder

SpecOrder == Init /\ [][NextOrder]_vars

\* -------------------------------------- the harness after a crash (SpecRestart)
\* A run directory left by a harness run that was killed after it had handed
\* out jobs and before any result was recorded; the operator has removed the
\* orphaned lock, and main() is started again.
InFlightStates ==
    {[InitState EXCEPT !.jobs = <<JobRec(1, 0, "RUNNING", 0), JobRec(2, 0, s, 0)>>] :
        s \in {"PENDING", "RUNNING"}}
InitRestart ==
    /\ exc = ""
    /\ todo = NoWork
    /\ ipc = NoRivals
    /\ HarnessOff
    /\ lockFile = 0
    /\ ledger = <<>>
    /\ snapshot \in {SnapshotOf(st) : st \in InFlightStates}
    /\ checkpoints = {}
    /\ seq = 0
    /\ state = InitState
    /\ accepted_payload_hashes = {}
    /\ q = <<>>
    /\ stop_event = FALSE
    /\ phase = "constructed"
    /\ rpc = "off"
    /\ item = NoItem
    /\ verdict = ""
    /\ accepted_since_ckpt = 0

SpecRestart == InitRestart /\ [][NextHarness]_vars

\* ------------------------------------------ save_state step by step (SpecSave)
\* register_jobs and get_next_job with their save_state call followed through
\* the temp file, the os.replace attempts and the fallback; each os.replace
\* either succeeds or raises PermissionError.
SaveAttempts == 5
SaveIdle == sv.pc \in {"idle", "returned"}

\* save_state: data = json.dumps(...); the temp file is written
SaveBegin(st) ==
    /\ tmp_file' = SnapshotOf(st)
    /\ sv' = [pc |-> "replace", attempt |-> 0, data |-> SnapshotOf(st)]

\* register_jobs(jobs) up to the first os.replace of its save_state
SaveRegisterJobs(jobs) ==
    /\ Alive
    /\ SaveIdle
    /\ state' = register_jobs(state, jobs)
    /\ SaveBegin(state')
    /\ UNCHANGED <<disk, seq, accepted_payload_hashes, q, stop_event, phase, reducer, exc,
                   todo, ipc, harness>>

\* get_next_job() finding a PENDING job, up to the first os.replace of its save_state
SaveGetNextJob ==
    /\ Alive
    /\ SaveIdle
    /\ FirstPending(state) # 0
    /\ state' = get_next_job(state)
    /\ SaveBegin(state')
    /\ UNCHANGED <<disk, seq, accepted_payload_hashes, q, stop_event, phase, reducer, exc,
                   todo, ipc, harness>>

\* Variant: after the last failed os.replace save_state returns without the direct write
SaveReplaceGiveUp ==
    /\ sv.pc = "replace"
    /\ \E denied \in BOOLEAN :
          IF ~denied
          THEN /\ snapshot' = tmp_file
               /\ tmp_file' = NoSnapshot
               /\ sv' = [sv EXCEPT !.pc = "returned"]
          ELSE /\ sv' = [sv EXCEPT !.attempt = @ + 1,
                                   !.pc = IF sv.attempt + 1 >= SaveAttempts
                                          THEN "returned" ELSE "replace"]
               /\ UNCHANGED <<snapshot, tmp_file>>
    /\ UNCHANGED <<lockFile, ledger, checkpoints, memory, reducer, phase, exc, todo, ipc,
                   harness>>

\* save_state: one pass of the loop, os.replace(tmp, state_path) succeeds or
\* raises PermissionError
SaveReplace ==
    /\ sv.pc = "replace"
    /\ \E denied \in BOOLEAN :
          IF ~denied
          THEN /\ snapshot' = tmp_file
               /\ tmp_file' = NoSnapshot
               /\ sv' = [sv EXCEPT !.pc = "returned"]
          ELSE /\ sv' = [sv EXCEPT !.attempt = @ + 1,
                                   !.pc = IF sv.attempt + 1 >= SaveAttempts
                                          THEN "fallback" ELSE "replace"]
               /\ UNCHANGED <<snapshot, tmp_file>>
    /\ UNCHANGED <<lockFile, ledger, checkpoints, memory, reducer, phase, exc, todo, ipc,
                   harness>>

\* save_state, fallback: os.remove(tmp), an OSError is ignored
SaveRemoveTmp ==
    /\ sv.pc = "fallback"
    /\ \E gone \in BOOLEAN : tmp_file' = IF gone THEN NoSnapshot ELSE tmp_file
    /\ sv' = [sv EXCEPT !.pc = "write"]
    /\ UNCHANGED <<lockFile, ledger, snapshot, checkpoints, memory, reducer, phase, exc,
                   todo, ipc, harness>>

\* save_state, fallback: the direct write of state.json
SaveDirectWrite ==
    /\ sv.pc = "write"
    /\ snapshot' = sv.data
    /\ sv' = [sv EXCEPT !.pc = "returned"]
    /\ UNCHANGED <<lockFile, ledger, checkpoints, memory, reducer, phase, exc, todo, ipc,
                   harness, tmp_file>>

NextSave ==
    \/ AcquireLock
    \/ LoadState
    \/ Replay
    \/ \E jobs \in JobListsAll : SaveRegisterJobs(jobs)
    \/ SaveGetNextJob
    \/ SaveReplace
    \/ SaveRemoveTmp
    \/ SaveDirectWrite

SpecSave == Init /\ [][NextSave]_vars

\* ================================================================ properties
PayloadHash(i) == sha256_json(ledger[i].payload)
LedgerHashes == {PayloadHash(i) : i \in DOMAIN ledger}
InLedger(h) == \E i \in DOMAIN ledger : PayloadHash(i) = h
Quiescent == phase \in {"resumed", "running", "released"} /\ rpc \in {"off", "idle", "exited"}

\* C1: whatever the order of RESULT messages, the crash points inside
\* accept_result and the resumes after them, no two ledger events carry
\* payloads with the same canonical hash.
C1_NoDuplicatePayload ==
    \A i, j \in DOMAIN ledger : i # j => PayloadHash(i) # PayloadHash(j)

\* A resumed orchestrator (the snapshot still holds the seq from before the
\* crash that interrupted an acceptance) has turned a resubmission down.
C1_Witness ==
    /\ rpc = "idle"
    /\ verdict = "REJECTED_DUP"
    /\ Len(ledger) >= 1
    /\ snapshot.doc.seq < Len(ledger)

\* C2: every payload in the ledger passes the schema validator and the
\* tolerance gate.
C2_LedgerPayloadsValid ==
    \A i \in DOMAIN ledger : validate(ledger[i].payload) /\ TolerancePass(ledger[i].payload)

\* Both kinds of rejection are possible inputs: one was counted, and an event
\* was accepted afterwards.
C2_Witness ==
    /\ Len(ledger) >= 1
    /\ state.rejected >= 1
    /\ verdict = "ACCEPTED"

\* C4: an accept_result call on a schema-valid, in-tolerance payload returns
\* REJECTED_DUP and leaves the ledger alone when a payload with the same
\* canonical hash (its fields in any order) is in the ledger already;
\* otherwise it appends exactly one event and returns ACCEPTED. So the same
\* payload submitted twice is ACCEPTED, then REJECTED_DUP, and the ledger
\* grows by one.
C4_GateStep ==
    (/\ ReducerRuns /\ rpc = "idle" /\ q # <<>> /\ phase' = phase /\ q' = Tail(q)
     /\ Head(q).kind = "RESULT"
     /\ validate(Head(q).payload) /\ TolerancePass(Head(q).payload))
    => IF InLedger(sha256_json(Head(q).payload))
       THEN verdict' = "REJECTED_DUP" /\ ledger' = ledger /\ rpc' = "idle"
       ELSE rpc' = "append" /\ item' = Head(q) /\ ledger' = ledger
C4_AcceptSteps ==
    /\ (rpc = "append" /\ rpc' = "mark") =>
          /\ Len(ledger') = Len(ledger) + 1
          /\ SubSeq(ledger', 1, Len(ledger)) = ledger
          /\ sha256_json(ledger'[Len(ledger')].payload) = sha256_json(item.payload)
    /\ (rpc = "mark" /\ rpc' = "save") => ledger' = ledger
    /\ (rpc = "save" /\ rpc' = "accepted") => ledger' = ledger /\ verdict' = "ACCEPTED"
C4_DedupTwice == [][C4_GateStep /\ C4_AcceptSteps]_vars

\* The second submission lists its fields in another order than the accepted one.
C4_Witness ==
    /\ rpc = "idle"
    /\ verdict = "REJECTED_DUP"
    /\ Len(ledger) = 1
    /\ item.payload # ledger[1].payload
    /\ sha256_json(item.payload) = PayloadHash(1)

\* C5: after a replay of a ledger of N accepted events the dedup index holds
\* exactly N hashes, those of the ledger, and seq = N; the orchestrator that
\* wrote the ledger is in the same condition whenever it is between messages.
C5_ReplayEquivalence ==
    Quiescent =>
        /\ Cardinality(accepted_payload_hashes) = Len(ledger)
        /\ accepted_payload_hashes = LedgerHashes
        /\ seq = Len(ledger)

\* A replay of two events whose snapshot missed the second acceptance.
C5_Witness ==
    /\ phase = "resumed"
    /\ Len(ledger) = 2
    /\ snapshot.doc.seq < 2

\* C3: NumConc distinct valid payloads submitted concurrently by the workers
\* and drained by the one reducer, from an empty ledger: the ledger lines
\* carry seq 1, 2, ... in order at every moment, and once everything is
\* drained there are exactly NumConc of them.
ConcDone ==
    /\ \A w \in Workers : todo[w] = <<>>
    /\ q = <<>>
    /\ rpc = "idle"
C3_SeqDense ==
    /\ \A i \in DOMAIN ledger : ledger[i].seqv = Num(i)
    /\ ConcDone => Len(ledger) = NumConc

\* Everything is drained and the two workers' events alternate in the ledger.
C3_Witness ==
    /\ ConcDone
    /\ Len(ledger) = NumConc
    /\ ledger[1].worker_id = 2
    /\ ledger[2].worker_id = 1
    /\ ledger[3].worker_id = 2

\* C6: two instances are never both between a successful acquire_lock and
\* their release_lock.
Holding(i) == ipc[i].pc \in {"locked", "loaded", "resumed", "running"}
C6_OneHolder == ~(Holding(1) /\ Holding(2))

\* C7: acquire_lock on a run directory whose lock file exists raises and
\* leaves the lock file, the ledger and the snapshot as they are; and while
\* the process has not got through acquire_lock it has read nothing from the
\* files (its fields are those of __init__) and writes none of them.
C7_Refused ==
    (phase = "constructed" /\ lockFile # 0 /\ phase' # phase) =>
        /\ phase' = "down"
        /\ exc' \in {"RuntimeError", "killed"}
        /\ UNCHANGED <<lockFile, ledger, snapshot>>
C7_NothingTouched ==
    /\ phase = "constructed" =>
          seq = 0 /\ state = InitState /\ accepted_payload_hashes = {}
    /\ phase \in {"down", "constructed"} => UNCHANGED <<ledger, snapshot, checkpoints>>
C7_LockFirst == [][C7_Refused /\ C7_NothingTouched]_vars

\* A start on the directory of a crashed run was refused: its lock, ledger and
\* snapshot are all still there.
C7_Witness ==
    /\ phase = "down"
    /\ exc = "RuntimeError"
    /\ lockFile # 0
    /\ Len(ledger) >= 1
    /\ snapshot.exists

\* The lines of the ledger that hold a payload map
PayloadLines == {i \in DOMAIN ledger :
                    ledger[i].form = "object" /\ ledger[i].payload_present
                    /\ ledger[i].payload.dict}
WellFormedEvent(l) ==
    l.form = "object" /\ l.payload_present /\ l.payload.dict /\ l.seqv.ty = "num"

\* C8: a replay that returns normally has met no malformed line: every line
\* that is not blank is a well-formed event (and so gave its payload hash to
\* the index).
C8_NoSilentSkip ==
    phase = "resumed" =>
        \A i \in DOMAIN ledger : ledger[i].form # "blank" => WellFormedEvent(ledger[i])

\* C9: after load_state and replay_ledger_for_dedup the dedup index is the set
\* of canonical payload hashes of the ledger's events, whatever the snapshot
\* file is (absent, or holding any seq and counters).
C9_IndexFromLedgerOnly ==
    phase = "resumed" => accepted_payload_hashes = {PayloadHash(i) : i \in PayloadLines}

\* A resume of two events under a snapshot whose seq is ahead of the ledger.
C9_Witness ==
    /\ phase = "resumed"
    /\ snapshot.exists
    /\ snapshot.doc.seq > Len(ledger)
    /\ Len(ledger) = 2
    /\ Cardinality(accepted_payload_hashes) = 2

\* The ledger is one the orchestrator writes: events numbered 1, 2, ...
WrittenLedger ==
    /\ ledger # <<>>
    /\ \A i \in DOMAIN ledger : WellFormedEvent(ledger[i]) /\ ledger[i].seqv = Num(i)

\* C10: after a resume over an existing ledger, seq is the largest seq in the
\* ledger, whatever seq the snapshot holds.
C10_SeqFromLedger ==
    (phase = "resumed" /\ WrittenLedger) => seq = Len(ledger)

\* ------------------------------------------------------------ job life cycle
StatusOf(st, id) == st.jobs[JobIndex(st, id)].status
AttemptsOf(st, id) == st.jobs[JobIndex(st, id)].attempts
KnownJobs(st) == {st.jobs[i].job_id : i \in DOMAIN st.jobs}
DefinedEdges ==
    {<<"PENDING", "RUNNING">>, <<"RUNNING", "DONE">>, <<"RUNNING", "PENDING">>,
     <<"RUNNING", "FAILED">>}

\* C11: whatever register_jobs and get_next_job calls and RESULT and ERROR
\* messages occur, a job's status changes only along PENDING->RUNNING,
\* RUNNING->DONE, RUNNING->PENDING or RUNNING->FAILED, and its attempts
\* never decrease.
C11_Step ==
    \A id \in KnownJobs(state) :
        /\ id \in KnownJobs(state')
        /\ AttemptsOf(state', id) >= AttemptsOf(state, id)
        /\ \/ StatusOf(state', id) = StatusOf(state, id)
           \/ <<StatusOf(state, id), StatusOf(state', id)>> \in DefinedEdges
C11_DefinedEdges == [][C11_Step]_vars

\* C12: when the reducer has processed a RESULT message with job_done = true
\* naming a registered job, that job is DONE, whatever the verdict on the
\* message's payload.
C12_RejectedStep ==
    (/\ ReducerRuns /\ rpc = "idle" /\ rpc' = "idle" /\ q # <<>> /\ q' = Tail(q)
     /\ Head(q).kind = "RESULT" /\ Head(q).job_done
     /\ Head(q).job_id \in KnownJobs(state))
    => StatusOf(state', Head(q).job_id) = "DONE"
C12_AcceptedStep ==
    (/\ rpc = "accepted" /\ rpc' = "idle" /\ item.job_done
     /\ item.job_id \in KnownJobs(state))
    => StatusOf(state', item.job_id) = "DONE"
C12_JobDoneCompletes == [][C12_RejectedStep /\ C12_AcceptedStep]_vars

\* C14: a register_jobs call leaves the attempts and status of every job that
\* is already registered as they are, adds exactly the ids it does not know,
\* and so changes nothing of the job table when it knows every id of its list.
ListIds(jobs) == {jobs[k] : k \in DOMAIN jobs}
C14_Step ==
    \A jobs \in JobListsAll :
        RegisterJobs(jobs) =>
            /\ \A id \in KnownJobs(state) :
                  /\ id \in KnownJobs(state')
                  /\ AttemptsOf(state', id) = AttemptsOf(state, id)
                  /\ StatusOf(state', id) = StatusOf(state, id)
            /\ KnownJobs(state') = KnownJobs(state) \cup ListIds(jobs)
            /\ Len(state'.jobs) = Cardinality(KnownJobs(state'))
            /\ ListIds(jobs) \subseteq KnownJobs(state) => Len(state'.jobs) = Len(state.jobs)
C14_RegisterIdempotent == [][C14_Step]_vars

\* Both jobs are registered, one has been retried and handed out again, the
\* other has ended; register_jobs can be called with a list naming both.
C14_Witness ==
    /\ phase = "running"
    /\ KnownJobs(state) = {1, 2}
    /\ AttemptsOf(state, 1) = 2 /\ StatusOf(state, 1) = "RUNNING"
    /\ StatusOf(state, 2) \in {"DONE", "FAILED"}

\* C15: a job's attempts never exceed max_attempts; a job becomes FAILED
\* exactly when its attempts reach max_attempts; a FAILED job stays FAILED
\* and the failed counter is not incremented for it again.
C15_Step ==
    \A id \in KnownJobs(state) :
        /\ AttemptsOf(state', id) <= max_attempts
        /\ (StatusOf(state, id) # "FAILED" /\ StatusOf(state', id) = "FAILED")
              <=> (AttemptsOf(state, id) < max_attempts
                   /\ AttemptsOf(state', id) = max_attempts)
        /\ StatusOf(state, id) = "FAILED" =>
              /\ StatusOf(state', id) = "FAILED"
              /\ (AttemptsOf(state', id) # AttemptsOf(state, id)
                    => state'.failed = state.failed)
C15_BoundedRetries == [][C15_Step]_vars

\* C13: once the reducer thread runs, the ledger file and the state snapshot
\* are written only by its steps; no call of the main thread and no worker
\* writes them. (The registration of new jobs, which the harness does before
\* it starts the thread, is left aside.)
ReducerStep ==
    \/ rpc' # rpc
    \/ rpc = "idle" /\ q # <<>> /\ q' = Tail(q)
C13_SingleWriter ==
    [][(/\ ReducerRuns
        /\ KnownJobs(state') = KnownJobs(state)
        /\ (ledger' # ledger \/ snapshot' # snapshot)) => ReducerStep]_vars

\* C16: a schema-valid payload that is no duplicate is accepted when the
\* absolute value of its root_val is below eps and gets REJECTED_TOL
\* otherwise (eps = 1e-10 is 10 here, 1e-9 is 100, 1e-11 is 1).
RootOf(p) == Get(p, "root_val").n
C16_ToleranceBoundary ==
    (rpc = "idle" /\ item.kind = "RESULT" /\ validate(item.payload)) =>
        IF Abs(RootOf(item.payload)) < EpsRoot
        THEN verdict \in {"ACCEPTED", "REJECTED_DUP"}
        ELSE verdict = "REJECTED_TOL"

\* C17: the hash of a ledger event covers run_id, worker_id, job_id, seq,
\* payload and timestamp: after a change of one field (the stored hash
\* included) of one line of a ledger as the reducer wrote it, the
\* verification pass reports that line's index and no other.
ChangedLines == {i \in DOMAIN ledger : ledger'[i] # ledger[i]}
C17_TamperStep ==
    (phase = "down" /\ ledger' # ledger) =>
        /\ Cardinality(ChangedLines) = 1
        /\ verify_ledger(ledger') = ChangedLines
C17_TamperDetected == [][C17_TamperStep]_vars

\* The timestamp of the second of two lines was changed; the pass reports line 2.
C17_Witness ==
    /\ Len(ledger) = 2
    /\ ledger[2].ts # ledger[2].hash.ts
    /\ verify_ledger(ledger) = {2}

\* C18: every operation leaves the ledger as it was or longer by lines added
\* at its end: accept_result, replay_ledger_for_dedup, load_state, save_state,
\* register_jobs, get_next_job, mark_job_done, mark_job_failed, the
\* checkpoint block, and a crash and a restart between any two of them.
C18_AppendOnly ==
    [][/\ Len(ledger') >= Len(ledger)
       /\ SubSeq(ledger', 1, Len(ledger)) = ledger]_vars

\* A run accepted two events, wrote a checkpoint and marked a job done and
\* then failed; the next run has loaded the snapshot and replayed the ledger.
C18_Witness ==
    /\ Len(ledger) = 2
    /\ phase = "resumed"
    /\ checkpoints # {}
    /\ state.done >= 1
    /\ \E i \in DOMAIN state.jobs : state.jobs[i].attempts >= 1

\* C19: the seq values of the ledger's lines increase strictly from line to
\* line, also when a crash inside accept_result and a resume lie between two
\* acceptances: the seq the next event is about to get is above every seq in
\* the ledger.
C19_SeqIncreasing ==
    /\ \A i, j \in DOMAIN ledger : i < j => ledger[i].seqv.n < ledger[j].seqv.n
    /\ rpc = "append" => \A i \in DOMAIN ledger : ledger[i].seqv.n < seq

\* The first acceptance was cut by a crash after the append and before the
\* save (the snapshot never got its seq); the resumed run has appended a
\* second event.
C19_Witness ==
    /\ Len(ledger) = 2
    /\ rpc = "mark"
    /\ snapshot.doc.seq = 0
    /\ accepted_payload_hashes = {PayloadHash(1)}

\* C20: an acquire_lock that finds the lock artifact raises, and no step of
\* an instance removes or overwrites a lock artifact that another instance
\* created: the artifact an instance left behind stays until it is removed
\* from outside.
C20_Step ==
    \A i \in Instances :
        /\ (ipc[i].pc = "constructed" /\ ipc'[i].pc # "constructed" /\ lockFile # 0)
              => ipc'[i].pc = "refused" /\ lockFile' = lockFile
        /\ (ipc'[i] # ipc[i] /\ lockFile # 0 /\ lockFile # i) => lockFile' = lockFile
C20_FailClosed == [][C20_Step]_vars

\* C21: the sub-steps of an acceptance come in the order seq := seq + 1,
\* append, add to the index, persist. So at every point, every crash point
\* included, the seq in the snapshot file is at most the highest seq in the
\* ledger file, and the index holds a hash only if an event with that payload
\* is in the ledger.
MaxLedgerSeq ==
    IF ledger = <<>> THEN 0
    ELSE CHOOSE n \in {ledger[i].seqv.n : i \in DOMAIN ledger} :
            \A i \in DOMAIN ledger : ledger[i].seqv.n <= n
C21_AcceptOrder ==
    /\ snapshot.doc.seq <= MaxLedgerSeq
    /\ accepted_payload_hashes \subseteq LedgerHashes
    /\ rpc = "append" =>
          /\ seq = MaxLedgerSeq + 1
          /\ ~InLedger(sha256_json(item.payload))
    /\ rpc = "mark" =>
          /\ seq = MaxLedgerSeq
          /\ PayloadHash(Len(ledger)) = sha256_json(item.payload)
          /\ sha256_json(item.payload) \notin accepted_payload_hashes
          /\ snapshot.doc.seq < seq
    /\ rpc = "save" =>
          /\ sha256_json(item.payload) \in accepted_payload_hashes
          /\ snapshot.doc.seq < seq

\* The process died after the append of a second event and before the save.
C21_Witness ==
    /\ phase = "down"
    /\ Len(ledger) = 2
    /\ snapshot.exists
    /\ snapshot.doc.seq = 1

\* C22: a payload that fails the schema gate gets REJECTED_SCHEMA whatever
\* the other two gates would say, and a schema-valid payload that fails the
\* tolerance gate gets REJECTED_TOL also when its hash is in the dedup index;
\* either rejection adds exactly 1 to the rejected counter and leaves the
\* ledger, seq and the dedup index as they are.
DequeuesResult ==
    /\ ReducerRuns /\ rpc = "idle" /\ q # <<>> /\ q' = Tail(q) /\ phase' = phase
    /\ Head(q).kind = "RESULT"
RejectedAs(v) ==
    /\ verdict' = v
    /\ rpc' = "idle"
    /\ state'.rejected = state.rejected + 1
    /\ ledger' = ledger
    /\ seq' = seq
    /\ accepted_payload_hashes' = accepted_payload_hashes
C22_Step ==
    DequeuesResult =>
        /\ ~validate(Head(q).payload) => RejectedAs("REJECTED_SCHEMA")
        /\ (validate(Head(q).payload) /\ ~TolerancePass(Head(q).payload))
              => RejectedAs("REJECTED_TOL")
C22_GateOrder == [][C22_Step]_vars

\* After a schema rejection, a payload out of tolerance whose hash the index
\* holds (its event was accepted under a wider eps_root) was turned down by
\* the tolerance gate.
C22_Witness ==
    /\ rpc = "idle"
    /\ verdict = "REJECTED_TOL"
    /\ sha256_json(item.payload) \in accepted_payload_hashes
    /\ state.rejected = 2

\* C23: an accept_result call that returns REJECTED_DUP (the payload passes
\* the schema and tolerance gates and its hash is in the index) changes
\* nothing: the ledger, seq, the index, the counters done, failed and
\* rejected, every job's status and the snapshot file stay as they are, also
\* when the message says job_done.
C23_Step ==
    (/\ DequeuesResult
     /\ validate(Head(q).payload) /\ TolerancePass(Head(q).payload)
     /\ sha256_json(Head(q).payload) \in accepted_payload_hashes)
    => /\ verdict' = "REJECTED_DUP"
       /\ rpc' = "idle"
       /\ ledger' = ledger
       /\ seq' = seq
       /\ accepted_payload_hashes' = accepted_payload_hashes
       /\ state' = state
       /\ snapshot' = snapshot
C23_DupIsNoOp == [][C23_Step]_vars

\* A duplicate came with job_done = true for a job that is RUNNING, after a
\* payload had been rejected and counted.
C23_Witness ==
    /\ rpc = "idle"
    /\ verdict = "REJECTED_DUP"
    /\ item.job_done
    /\ state.rejected = 1
    /\ \E i \in DOMAIN state.jobs :
          state.jobs[i].job_id = item.job_id /\ state.jobs[i].status = "RUNNING"

\* C24: in the harness every dispatched job whose compute returned without error
\* ends DONE: once the reducer has processed everything main() forwarded and has
\* left its loop, every job that has an event in the ledger (its worker sent
\* RESULT messages, so its compute returned) is DONE.
HasEvent(id) == \E k \in DOMAIN ledger : ledger[k].job_id = id
C24_ComputedJobsDone ==
    rpc = "exited" =>
        \A i \in DOMAIN state.jobs :
            HasEvent(state.jobs[i].job_id) => state.jobs[i].status = "DONE"

\* C25: when the reducer has accepted the payload of a RESULT message with
\* job_done = true naming a RUNNING job, mark_job_done makes that job DONE and
\* adds one to done, leaving the other jobs alone; while it processes a RESULT
\* message with job_done = false no job's status and not the done counter change.
C25_DoneStep ==
    (/\ rpc = "accepted" /\ rpc' = "idle" /\ phase' = phase /\ item.job_done
     /\ item.job_id \in KnownJobs(state) /\ StatusOf(state, item.job_id) = "RUNNING")
    => /\ StatusOf(state', item.job_id) = "DONE"
       /\ state'.done = state.done + 1
       /\ \A i \in DOMAIN state.jobs :
             state.jobs[i].job_id # item.job_id => state'.jobs[i] = state.jobs[i]
C25_NotDoneStep ==
    (/\ phase' = phase
     /\ \/ DequeuesResult /\ ~Head(q).job_done
        \/ rpc \in {"append", "mark", "save", "accepted"} /\ rpc' # rpc /\ ~item.job_done)
    => state'.jobs = state.jobs /\ state'.done = state.done
C25_MarkDoneOnFlag == [][C25_DoneStep /\ C25_NotDoneStep]_vars
C25_Witness ==
    /\ rpc = "idle" /\ verdict = "ACCEPTED" /\ item.kind = "RESULT" /\ item.job_done
    /\ state.done = 1 /\ Len(state.jobs) = 2
    /\ StatusOf(state, item.job_id) = "DONE"
    /\ \E i \in DOMAIN state.jobs : state.jobs[i].status = "RUNNING"

\* C26: the reducer's step on an ERROR message naming a registered job adds
\* exactly one to the job's attempts; when the new attempts are below
\* max_attempts the job becomes PENDING and failed stays, otherwise the job
\* becomes FAILED and failed grows by one; the ledger, seq, the dedup index and
\* every other job are unchanged, and the state is persisted.
DequeuesError ==
    /\ ReducerRuns /\ rpc = "idle" /\ q # <<>> /\ q' = Tail(q) /\ phase' = phase
    /\ Head(q).kind = "ERROR"
C26_Step ==
    (DequeuesError /\ Head(q).job_id \in KnownJobs(state))
    => LET id == Head(q).job_id IN
       /\ AttemptsOf(state', id) = AttemptsOf(state, id) + 1
       /\ IF AttemptsOf(state', id) < max_attempts
          THEN StatusOf(state', id) = "PENDING" /\ state'.failed = state.failed
          ELSE StatusOf(state', id) = "FAILED" /\ state'.failed = state.failed + 1
       /\ \A i \in DOMAIN state.jobs :
             state.jobs[i].job_id # id => state'.jobs[i] = state.jobs[i]
       /\ Len(state'.jobs) = Len(state.jobs)
       /\ state'.done = state.done /\ state'.rejected = state.rejected
       /\ ledger' = ledger /\ seq' = seq
       /\ accepted_payload_hashes' = accepted_payload_hashes
       /\ snapshot' = save_state(state')
C26_ErrorRoutesToFailed == [][C26_Step]_vars
C26_Witness ==
    /\ rpc = "idle" /\ item.kind = "ERROR" /\ Len(state.jobs) = 2 /\ Len(ledger) = 1
    /\ StatusOf(state, item.job_id) = "FAILED"
    /\ AttemptsOf(state, item.job_id) = max_attempts /\ state.failed = 1

\* C27: every get_next_job call, also after a resume from the snapshot, turns
\* the first PENDING job in registration order RUNNING, saves the state and
\* leaves the other jobs alone; with no PENDING job it changes nothing.
PendingInOrder ==
    {k \in DOMAIN RegistrationOrder :
        /\ HasJob(state, RegistrationOrder[k])
        /\ StatusOf(state, RegistrationOrder[k]) = "PENDING"}
FirstRegisteredPending ==
    RegistrationOrder[CHOOSE k \in PendingInOrder : \A l \in PendingInOrder : k <= l]
C27_Step ==
    GetNextJob =>
        IF PendingInOrder = {}
        THEN state' = state /\ snapshot' = snapshot
        ELSE /\ StatusOf(state', FirstRegisteredPending) = "RUNNING"
             /\ \A i \in DOMAIN state.jobs :
                   state.jobs[i].job_id # FirstRegisteredPending
                      => state'.jobs[i] = state.jobs[i]
             /\ snapshot' = save_state(state')
C27_FirstPendingInOrder == [][C27_Step]_vars

\* C28: whenever the reducer is between messages or has left its loop, and
\* right after a resume, the dedup index equals the set of canonical payload
\* hashes of the events in the ledger file.
BetweenMessages == ReducerRuns /\ rpc \in {"idle", "accepted", "exited", "dead"}
C28_IndexEqualsLedger ==
    (phase = "resumed" \/ BetweenMessages) => accepted_payload_hashes = LedgerHashes
C28_Witness ==
    /\ phase = "running" /\ rpc = "idle" /\ verdict = "ACCEPTED"
    /\ Len(ledger) = 2 /\ ledger[1].run_id = RunId
    /\ Cardinality(accepted_payload_hashes) = 2
    /\ snapshot.exists /\ snapshot.doc.seq = 2 /\ state.rejected = 1

\* C29: in the harness, once release_lock has run (the lock file is gone and
\* main() is past its finally clause), the reducer appends nothing to the ledger
\* and writes no snapshot.
C29_Step == phase = "released" => (ledger' = ledger /\ snapshot' = snapshot)
C29_NoWriteAfterRelease == [][C29_Step]_vars

\* C30: whatever RESULT and ERROR messages the reducer has processed, done is
\* the number of DONE jobs and failed is the number of FAILED jobs.
JobsWithStatus(s) == {i \in DOMAIN state.jobs : state.jobs[i].status = s}
C30_CountersMatchStatuses ==
    /\ state.done = Cardinality(JobsWithStatus("DONE"))
    /\ state.failed = Cardinality(JobsWithStatus("FAILED"))

\* C31: for each job a worker pulls it emits either exactly one ERROR message,
\* or the candidates compute returned, in their order, as RESULT messages with
\* job_done = false followed by exactly one RESULT message with job_done = true
\* that carries the last candidate (the empty sentinel payload when there is
\* none); it puts these messages in that order and then pulls the next job.
CandidateLists(j) == {o.payloads : o \in {c \in ComputeOutcomes(j) : ~c.raises}}
WellFormedBatch(w, j, ms) ==
    \/ ms = <<Error(w, j)>>
    \/ /\ Len(ms) >= 1
       /\ \A i \in 1..Len(ms) :
             /\ ms[i].kind = "RESULT" /\ ms[i].worker_id = w /\ ms[i].job_id = j
             /\ ms[i].job_done <=> i = Len(ms)
       /\ [i \in 1..(Len(ms) - 1) |-> ms[i].payload] \in CandidateLists(j)
       /\ ms[Len(ms)].payload =
             IF Len(ms) = 1 THEN EmptyPayload(j) ELSE ms[Len(ms) - 1].payload
C31_Step ==
    \A w \in Workers :
        /\ (wpc[w].pc = "get" /\ wpc'[w].pc = "put")
              => WellFormedBatch(w, Head(job_q), wpc'[w].msgs)
        /\ (wpc[w].pc = "put" /\ wpc'[w] # wpc[w])
              => /\ out_q' = Append(out_q, Head(wpc[w].msgs))
                 /\ wpc'[w].msgs = Tail(wpc[w].msgs)
                 /\ wpc'[w].pc = IF wpc'[w].msgs = <<>> THEN "get" ELSE "put"
C31_WorkerProtocol == [][C31_Step]_vars
C31_Witness ==
    /\ wpc[1].pc = "get"
    /\ out_q = <<Result(1, 1, Good(1, 0), FALSE), Result(1, 1, Good(1, 1), FALSE),
                 Result(1, 1, Good(1, 1), TRUE)>>
    /\ wpc[2].pc = "put" /\ wpc[2].msgs = <<Error(2, 2)>>

\* C32: when one worker emitted payload p and then payload q for the same job
\* and both are in the ledger, p's event has the smaller seq and stands before
\* q's, however the messages of the other worker were interleaved.
EmittedBefore(p, r) ==
    \E j \in JobIds : \E c \in CandidateLists(j) : \E a, b \in DOMAIN c :
        a < b /\ c[a] = p /\ c[b] = r
C32_WorkerOrderKept ==
    \A a, b \in DOMAIN ledger :
        (/\ ledger[a].worker_id = ledger[b].worker_id
         /\ ledger[a].job_id = ledger[b].job_id
         /\ EmittedBefore(ledger[a].payload, ledger[b].payload))
        => a < b /\ ledger[a].seqv.n < ledger[b].seqv.n
C32_Witness ==
    /\ Len(ledger) = 3
    /\ ledger[1].payload = Good(1, 0) /\ ledger[3].payload = Good(1, 1)
    /\ ledger[1].worker_id = ledger[3].worker_id
    /\ ledger[2].job_id = 2 /\ ledger[2].worker_id # ledger[1].worker_id

\* C33: shutdown() puts the sentinel behind every message already enqueued; the
\* reducer takes messages from the head of the queue only, one at a time, and
\* leaves its loop exactly when it takes the sentinel, between messages, so that
\* everything enqueued before the sentinel has been processed to the end; once
\* it has left the loop it takes nothing from the queue and writes nothing.
C33_ShutdownStep == (~stop_event /\ stop_event') => q' = Append(q, Sentinel)
C33_ExitStep ==
    (rpc # "exited" /\ rpc' = "exited")
    => /\ rpc = "idle" /\ q # <<>> /\ Head(q) = Sentinel /\ q' = Tail(q)
       /\ ledger' = ledger /\ state' = state /\ snapshot' = snapshot /\ seq' = seq
       /\ accepted_payload_hashes' = accepted_payload_hashes
C33_DequeueStep ==
    (ReducerRuns /\ phase' = phase /\ Len(q') < Len(q))
    => /\ rpc = "idle" /\ q' = Tail(q) /\ item' = Head(q)
       /\ Head(q) = Sentinel <=> rpc' = "exited"
C33_AfterExitStep ==
    (rpc = "exited" /\ phase' = phase)
    => /\ rpc' = "exited" /\ item' = item /\ ledger' = ledger /\ seq' = seq
       /\ accepted_payload_hashes' = accepted_payload_hashes
       /\ (q' = q \/ (Len(q') = Len(q) + 1 /\ SubSeq(q', 1, Len(q)) = q))
C34_RetriedBeforeShutdown ==
    rpc = "exited" => \A i \in DOMAIN state.jobs : state.jobs[i].status # "PENDING"

\* C35: after a crash and a resume, every job that the snapshot holds as RUNNING
\* is handed out again: when the resumed harness run is over, each such job has
\* been worked on in this run, that is, it has an event in the ledger or a
\* counted attempt.
C35_InFlightJobsRedispatched ==
    rpc = "exited" =>
        \A i \in DOMAIN state.jobs :
            HasEvent(state.jobs[i].job_id) \/ state.jobs[i].attempts >= 1

\* C36: the dispatch loop hands out only a job that was PENDING, and marks it
\* RUNNING; so in the harness a job id is never in two places at once among
\* the job queue and the workers that are working on a job.
WorkerHolds(w, j) == wpc[w].pc = "put" /\ wpc[w].msgs # <<>> /\ wpc[w].msgs[1].job_id = j
Holders(j) ==
    Cardinality({k \in DOMAIN job_q : job_q[k] = j})
    + Cardinality({w \in Workers : WorkerHolds(w, j)})
C36_AtMostOneHolder == \A j \in JobIds : Holders(j) <= 1
C36_HandOutStep ==
    (mpc.pc = "dispatch" /\ Len(job_q') > Len(job_q))
    => LET j == job_q'[Len(job_q')] IN
       /\ job_q' = Append(job_q, j)
       /\ HasJob(state, j) /\ StatusOf(state, j) = "PENDING"
       /\ StatusOf(state', j) = "RUNNING"
C36_NoDoubleHandOut == []C36_AtMostOneHolder /\ [][C36_HandOutStep]_vars
C36_Witness ==
    /\ WorkerHolds(1, 2) /\ WorkerHolds(2, 1) /\ job_q = <<>>
    /\ mpc.pc = "dispatch" /\ StatusOf(state, 1) = "RUNNING" /\ StatusOf(state, 2) = "RUNNING"

\* C37: in the harness every payload in the ledger is a candidate that compute
\* returned for the event's job; the completion message adds no event.
IsCandidate(j, p) ==
    \E c \in CandidateLists(j) : \E a \in DOMAIN c : c[a] = p
C37_OnlyCandidatesRecorded ==
    \A k \in DOMAIN ledger : IsCandidate(ledger[k].job_id, ledger[k].payload)

\* C38: save_state writes the temp file before the first rename, tries the
\* rename at most SaveAttempts times, falls back to removing the temp file and
\* writing state.json directly only after SaveAttempts refusals, always makes
\* progress, and has returned only with state.json holding the in-memory state.
SaveRank ==
    CASE sv.pc = "replace" -> 2 + (SaveAttempts - sv.attempt)
      [] sv.pc = "fallback" -> 2
      [] sv.pc = "write" -> 1
      [] OTHER -> 0
C38_Inv ==
    /\ sv.attempt <= SaveAttempts
    /\ sv.pc = "replace" =>
          /\ sv.attempt < SaveAttempts
          /\ tmp_file = SnapshotOf(state) /\ sv.data = SnapshotOf(state)
    /\ sv.pc \in {"fallback", "write"} =>
          sv.attempt = SaveAttempts /\ sv.data = SnapshotOf(state)
    /\ sv.pc = "returned" => snapshot = SnapshotOf(state)
    /\ sv.pc \in {"replace", "fallback", "write"} =>
          ENABLED (SaveReplace \/ SaveRemoveTmp \/ SaveDirectWrite)
C38_Step ==
    /\ (sv.pc \in {"replace", "fallback", "write"} /\ sv' # sv) => SaveRank' < SaveRank
    /\ (sv.pc = "replace" /\ sv'.pc = "returned") => snapshot' = tmp_file
    /\ (sv.pc = "write" /\ sv'.pc = "returned") => snapshot' = sv.data
    /\ snapshot' # snapshot => sv'.pc = "returned"
C38_SaveStateEnds == []C38_Inv /\ [][C38_Step]_vars
C38_Witness ==
    /\ sv.pc = "returned" /\ sv.attempt = SaveAttempts
    /\ snapshot = SnapshotOf(state) /\ tmp_file = NoSnapshot
    /\ Len(state.jobs) = 2 /\ StatusOf(state, 2) = "RUNNING"

====
